---- MODULE Spec2Model ----
(***************************************************************************)
(* Model of the DE1 simulator Controller (src/main.cpp, class DE1Simulator):*)
(* the machine state machine with its three QTimers, the operator buttons,  *)
(* the inbound characteristic writes and the profile assembler.             *)
(* The Agent (class DE1BleDaemon, in src/pi-daemon/de1-ble-daemon.cpp and    *)
(* in the DAEMON_CPP string of main.cpp) is modelled with its TCP client     *)
(* slot, its BLE controller state and its characteristic values, and both    *)
(* ends of the control channel with their line reassembly.                   *)
(*                                                                          *)
(* Every C++ double is kept as an integer number of 1/400 units (see Q), so  *)
(* that /16, /2, /10, *0.8, 0.2 s ticks and the 0.5 / 0.3 ramps are exact.   *)
(* A handler is one atomic step (the Qt event loop runs one slot at a time); *)
(* it is written as a function on the record of the object's fields, so that *)
(* the calls it makes compose in the order of the source.                    *)
(***************************************************************************)
EXTENDS Integers, Sequences, FiniteSets, TLC

VARIABLES
    socketConnected,    \* m_socket->state() == QAbstractSocket::ConnectedState
    buttonsEnabled,     \* the six operator buttons (enabled on connect)
    readyDue,           \* the Agent's "ready" event of this session is in flight
    ghcMode,            \* m_ghcCombo->currentData()
    m_currentState,
    m_currentSubState,
    shotTimerActive,    \* m_shotTimer->isActive()
    phaseTimerActive,   \* m_phaseTimer->isActive()
    waterTimerActive,   \* m_waterTimer->isActive()
    m_shotTimer_s,
    m_pressure,
    m_flow,
    m_steamTemp,
    m_frameNumber,
    m_setPressure,
    m_setFlow,
    m_profileHeader,
    m_profileFrames,
    written,            \* history: wire indices below numFrames written since the last header
    op,                 \* the handler that ran in the last step, with its input
    fx,                 \* what that handler did, in order: assignments of the pair,
                        \* timer starts/stops, commands written to the socket
    m_tcpBuffer,        \* DE1Simulator::m_tcpBuffer
    piStream,           \* history: the bytes DE1Simulator has read from its socket
    piLines,            \* history: the lines DE1Simulator has handed to handlePiEvent
    daemonSource,       \* which source of DE1BleDaemon runs on the Pi
    bootTimerPending,   \* the QTimer::singleShot of DE1BleDaemon::setupBluetooth
    bleState,           \* m_bleController->state()
    gattValues,         \* value of each characteristic of m_de1Service
    m_tcpClient,        \* DE1BleDaemon::m_tcpClient (NoClient is nullptr)
    daemonBuffer,       \* DE1BleDaemon::m_tcpBuffer (m_buf in DAEMON_CPP)
    winStream,          \* history: the bytes DE1BleDaemon has read from its client
    winLines,           \* history: the lines DE1BleDaemon has handed to handleCommand
    toAgent,            \* the command lines the Controller has written and the Agent has not read yet
    stateLog,           \* history: the pairs made current and the pairs reported on ready, in order
    stateInfoLog,       \* history: the STATE_INFO values written at the Agent, in order
    m_bleClientLabel,   \* m_bleClientLabel->text(): the BLE client the Controller shows
    bleEvents           \* the connected / disconnected events the Agent has written
                        \* and the Controller has not read yet

vars == <<socketConnected, buttonsEnabled, readyDue, ghcMode, m_currentState,
          m_currentSubState, shotTimerActive, phaseTimerActive,
          waterTimerActive, m_shotTimer_s, m_pressure, m_flow, m_steamTemp,
          m_frameNumber, m_setPressure, m_setFlow, m_profileHeader,
          m_profileFrames, written, op, fx, m_tcpBuffer, piStream, piLines,
          daemonSource, bootTimerPending, bleState, gattValues, m_tcpClient,
          daemonBuffer, winStream, winLines, toAgent, stateLog, stateInfoLog,
          m_bleClientLabel, bleEvents>>

\* the variables of the Agent (class DE1BleDaemon)
agentVars == <<daemonSource, bootTimerPending, bleState, gattValues, m_tcpClient,
               daemonBuffer, winStream, winLines>>

\* the channel between the Controller and the Agent and the two histories
\* kept at its ends
linkVars == <<toAgent, stateLog, stateInfoLog, bleEvents>>

----------------------------------------------------------------------------
(* Bounds of the model *)

\* TCP connections to the Agent that can be open or arriving at one time
MaxSockets == 2
\* bytes the two receivers of the control channel read in one behaviour
MaxStream == 5

\* shot-timer ticks the model lets one run of the shot timer accumulate
MaxTicks == 1
\* largest profile whose frames are written in every order
MaxFrames == 2

----------------------------------------------------------------------------
(* Fixed-point stand-in for double: the rational n/d in units of 1/400 *)

Q(n, d) == (n * 400) \div d

Min(a, b) == IF a < b THEN a ELSE b
Max(a, b) == IF a > b THEN a ELSE b
\* qBound(lo, v, hi)
qBound(lo, v, hi) == Max(lo, Min(v, hi))
\* C++ conversion of a quotient to an integer type truncates toward zero
TruncDiv(a, b) == IF a >= 0 THEN a \div b ELSE -((-a) \div b)

----------------------------------------------------------------------------
(* DE1::State and DE1::SubState *)

Sleep == 0
Idle == 2
Espresso == 4
Steam == 5
HotWater == 6
HotWaterRinse == 15

Ready == 0
Heating == 1
Preinfusion == 4
Pouring == 5
Ending == 6
Steaming == 7

\* characteristic short ids
CHAR_REQUESTED_STATE == "A002"
CHAR_READ_FROM_MMR == "A005"
CHAR_WRITE_TO_MMR == "A006"
CHAR_SHOT_SETTINGS == "A00B"
CHAR_SHOT_SAMPLE == "A00D"
CHAR_STATE_INFO == "A00E"
CHAR_HEADER_WRITE == "A00F"
CHAR_FRAME_WRITE == "A010"
CHAR_WATER_LEVELS == "A011"

\* DE1::MMR addresses tested by handleMMRReadRequest
GHC_INFO == 8402972
GHC_MODE == 8402976
USB_CHARGER == 8403028
MACHINE_MODEL == 8388620
FIRMWARE_VERSION == 8388624

----------------------------------------------------------------------------
(* BinaryCodec. A double argument or result is in units of 1/400. *)

\* variant: the cast to uint8_t without the clamp before it
encodeU8P4_wrap(value) == TruncDiv(value * 16, 400) % 256
encodeU8P4(value) == qBound(0, TruncDiv(value * 16, 400), 255)
decodeU8P4(value) == Q(value, 16)
encodeU16P12(value) == qBound(0, TruncDiv(value * 4096, 400), 65535)
encodeU16P8(value) == qBound(0, TruncDiv(value * 256, 400), 65535)
decodeU8P1(value) == Q(value, 2)
encodeU24P16(value) ==
    LET encoded == qBound(0, TruncDiv(value * 4096, 25), 16777215)
    IN  <<(encoded \div 65536) % 256, (encoded \div 256) % 256, encoded % 256>>
encodeShortBE(value) == <<(value \div 256) % 256, value % 256>>
decodeShortBE(data) == data[1] * 256 + data[2]
\* least significant byte first
encodeUint32BE_le(value) ==
    <<value % 256, (value \div 256) % 256,
      (value \div 65536) % 256, (value \div 16777216) % 256>>

encodeUint32BE(value) ==
    <<(value \div 16777216) % 256, (value \div 65536) % 256,
      (value \div 256) % 256, value % 256>>
decodeAddress(data) == data[1] * 65536 + data[2] * 256 + data[3]
\* variant: the high bit does not select whole seconds
decodeF8_1_7_tenths(value) == Q(value, 10)
decodeF8_1_7(value) == IF value >= 128 THEN Q(value % 128, 1) ELSE Q(value, 10)
decodeU10P0(data) == decodeShortBE(data) % 1024

----------------------------------------------------------------------------
(* ProfileFrame, ProfileHeader: the default-constructed values *)

ProfileFrame ==
    [frameIndex |-> 0, flags |-> 0, setVal |-> 0, temp |-> 0, duration |-> 0,
     triggerVal |-> 0, maxVol |-> 0, hasExtension |-> FALSE,
     limiterValue |-> 0, limiterRange |-> 0]

ProfileHeader ==
    [headerV |-> 0, numFrames |-> 0, numPreinfuseFrames |-> 0,
     minPressure |-> 0, maxFlow |-> 0]

\* fields of DE1Simulator that no handler assigns
m_temperature == Q(93, 1)
m_setTemp == Q(93, 1)
m_waterLevel == Q(75, 1)

----------------------------------------------------------------------------
(* The object's fields as one record, and the effects a handler leaves *)

\* the text m_bleClientLabel is constructed with and reset to
None == "None"

Cur ==
    [connected |-> socketConnected, buttons |-> buttonsEnabled, ghc |-> ghcMode,
     state |-> m_currentState, sub |-> m_currentSubState,
     shotOn |-> shotTimerActive, phaseOn |-> phaseTimerActive,
     waterOn |-> waterTimerActive,
     timer |-> m_shotTimer_s, pressure |-> m_pressure, flow |-> m_flow,
     steamTemp |-> m_steamTemp, frame |-> m_frameNumber,
     setPressure |-> m_setPressure, setFlow |-> m_setFlow,
     header |-> m_profileHeader, frames |-> m_profileFrames,
     tcpBuffer |-> m_tcpBuffer, stream |-> piStream, lines |-> piLines,
     bleClient |-> m_bleClientLabel, fx |-> <<>>]

Commit(c) ==
    /\ socketConnected' = c.connected
    /\ buttonsEnabled' = c.buttons
    /\ ghcMode' = c.ghc
    /\ m_currentState' = c.state
    /\ m_currentSubState' = c.sub
    /\ shotTimerActive' = c.shotOn
    /\ phaseTimerActive' = c.phaseOn
    /\ waterTimerActive' = c.waterOn
    /\ m_shotTimer_s' = c.timer
    /\ m_pressure' = c.pressure
    /\ m_flow' = c.flow
    /\ m_steamTemp' = c.steamTemp
    /\ m_frameNumber' = c.frame
    /\ m_setPressure' = c.setPressure
    /\ m_setFlow' = c.setFlow
    /\ m_profileHeader' = c.header
    /\ m_profileFrames' = c.frames
    /\ m_tcpBuffer' = c.tcpBuffer
    /\ piStream' = c.stream
    /\ piLines' = c.lines
    /\ m_bleClientLabel' = c.bleClient
    /\ fx' = c.fx

Effect(t, what, data) == [t |-> t, what |-> what, data |-> data]
Did(c, e) == [c EXCEPT !.fx = Append(@, e)]

\* QTimer::start / QTimer::stop on m_shotTimer, m_phaseTimer, m_waterTimer
shotTimerStart(c) == Did([c EXCEPT !.shotOn = TRUE], Effect("start", "shot", <<200>>))
shotTimerStop(c) == Did([c EXCEPT !.shotOn = FALSE], Effect("stop", "shot", <<>>))
phaseTimerStart(c, ms) ==
    Did([c EXCEPT !.phaseOn = TRUE], Effect("start", "phase", <<ms>>))
phaseTimerStop(c) == Did([c EXCEPT !.phaseOn = FALSE], Effect("stop", "phase", <<>>))
waterTimerStart(c) == Did([c EXCEPT !.waterOn = TRUE], Effect("start", "water", <<5000>>))
waterTimerStop(c) == Did([c EXCEPT !.waterOn = FALSE], Effect("stop", "water", <<>>))

----------------------------------------------------------------------------
(* Send to the Agent *)

\* sendCommand: nothing is written unless the socket is connected
sendCommand(c, cmd) == IF ~c.connected THEN c ELSE Did(c, cmd)

sendNotification(c, charId, data) == sendCommand(c, Effect("notify", charId, data))

sendStateNotification(c) == sendNotification(c, CHAR_STATE_INFO, <<c.state, c.sub>>)

sendWaterLevel(c) ==
    IF ~c.connected THEN c
    ELSE LET waterMm == TruncDiv(m_waterLevel * 40, 100) - Q(5, 1)
         IN  sendNotification(c, CHAR_WATER_LEVELS, encodeShortBE(encodeU16P8(waterMm)))

\* static_cast<uint16_t>(m_shotTimer_s * 100) is the integer part while that
\* is at most 65535; the reduction modulo 65536 is one of the results an
\* out-of-range conversion can give (see CastOutcomes)
sendShotSample(c) ==
    IF ~c.connected THEN c
    ELSE LET timerEncoded == TruncDiv(c.timer * 100, 400) % 65536
             data == encodeShortBE(timerEncoded)
                     \o encodeShortBE(encodeU16P12(c.pressure))
                     \o encodeShortBE(encodeU16P12(c.flow))
                     \o encodeShortBE(encodeU16P8(m_temperature))
                     \o encodeU24P16(m_temperature)
                     \o encodeShortBE(encodeU16P8(m_setTemp))
                     \o encodeShortBE(encodeU16P8(m_setTemp))
                     \o <<encodeU8P4(c.setPressure), encodeU8P4(c.setFlow),
                          c.frame % 256, TruncDiv(c.steamTemp, 400) % 256>>
         IN  sendNotification(c, CHAR_SHOT_SAMPLE, data)

----------------------------------------------------------------------------
(* Simulation *)

\* 8 + sin(0.5 t) and 2 + 0.5 sin(0.3 t) are not computed: the step takes either
\* end of the range of the two expressions.
PouringSamples == {<<Q(7, 1), Q(3, 2)>>, <<Q(9, 1), Q(5, 2)>>}

updateSimulationValues(c, sinP, sinF) ==
    IF c.state = Espresso THEN
        IF c.sub = Preinfusion THEN
            [c EXCEPT !.pressure = Min(Q(4, 1), (c.timer * 8) \div 10),
                      !.flow = Q(2, 1), !.setPressure = Q(4, 1), !.setFlow = Q(2, 1)]
        ELSE IF c.sub = Pouring THEN
            LET pouringTime == c.timer - Q(7, 1)
            IN  [c EXCEPT !.pressure = sinP, !.flow = sinF,
                          !.setPressure = Q(9, 1), !.setFlow = Q(2, 1),
                          !.frame = Min(5, TruncDiv(pouringTime, Q(5, 1)) + 1)]
        ELSE IF c.sub = Ending THEN
            [c EXCEPT !.pressure = Max(0, c.pressure - Q(1, 2)),
                      !.flow = Max(0, c.flow - Q(3, 10))]
        ELSE c
    ELSE IF c.state = Steam THEN
        [c EXCEPT !.pressure = Q(3, 2), !.flow = 0,
                  !.steamTemp = Min(Q(150, 1), Q(100, 1) + c.timer * 2)]
    ELSE IF c.state = HotWater THEN
        [c EXCEPT !.pressure = Q(1, 2), !.flow = Q(6, 1)]
    ELSE IF c.state = HotWaterRinse THEN
        [c EXCEPT !.pressure = Q(1, 1), !.flow = Q(8, 1)]
    ELSE c

onShotTimerTick(c, sinP, sinF) ==
    sendShotSample(updateSimulationValues([c EXCEPT !.timer = @ + Q(1, 5)], sinP, sinF))

\* variant: the pair is assigned without the notification
transitionToState_silent(c, state, subState) ==
    Did([c EXCEPT !.state = state, !.sub = subState],
        Effect("assign", "pair", <<state, subState>>))

transitionToState(c, state, subState) ==
    sendStateNotification(
        Did([c EXCEPT !.state = state, !.sub = subState],
            Effect("assign", "pair", <<state, subState>>)))

\* variant: the transition is emitted before the timers are cancelled
stopOperation_late(c) ==
    LET c1 == transitionToState(c, Idle, Ready)
        c2 == phaseTimerStop(shotTimerStop(c1))
    IN  [c2 EXCEPT !.pressure = 0, !.flow = 0, !.steamTemp = 0, !.frame = 0]

stopOperation(c) ==
    LET c1 == phaseTimerStop(shotTimerStop(c))
        c2 == [c1 EXCEPT !.pressure = 0, !.flow = 0, !.steamTemp = 0, !.frame = 0]
    IN  transitionToState(c2, Idle, Ready)

\* variant: only the Espresso ladder is handled
onPhaseTimeout_espressoOnly(c) ==
    IF c.state = Espresso THEN
        IF c.sub = Heating THEN
            phaseTimerStart(transitionToState(c, Espresso, Preinfusion), 5000)
        ELSE IF c.sub = Preinfusion THEN
            phaseTimerStart(transitionToState(c, Espresso, Pouring), 25000)
        ELSE IF c.sub = Pouring THEN
            phaseTimerStart(transitionToState(c, Espresso, Ending), 2000)
        ELSE IF c.sub = Ending THEN stopOperation(c)
        ELSE c
    ELSE c

onPhaseTimeout(c) ==
    IF c.state = Espresso THEN
        IF c.sub = Heating THEN
            phaseTimerStart(transitionToState(c, Espresso, Preinfusion), 5000)
        ELSE IF c.sub = Preinfusion THEN
            phaseTimerStart(transitionToState(c, Espresso, Pouring), 25000)
        ELSE IF c.sub = Pouring THEN
            phaseTimerStart(transitionToState(c, Espresso, Ending), 2000)
        ELSE IF c.sub = Ending THEN stopOperation(c)
        ELSE c
    ELSE IF c.state = Steam THEN stopOperation(c)
    ELSE IF c.state = HotWater THEN stopOperation(c)
    ELSE IF c.state = HotWaterRinse THEN stopOperation(c)
    ELSE c

\* variant: the check of the current state is missing
startOperation_unguarded(c, state) ==
    LET c1 == [c EXCEPT !.timer = 0, !.pressure = 0, !.flow = 0, !.frame = 0]
        c2 == IF state = Espresso THEN
                  phaseTimerStart(transitionToState(c1, Espresso, Heating), 2000)
              ELSE IF state = Steam THEN
                  phaseTimerStart(transitionToState(c1, Steam, Steaming), 45000)
              ELSE IF state = HotWater THEN
                  phaseTimerStart(transitionToState(c1, HotWater, Pouring), 30000)
              ELSE IF state = HotWaterRinse THEN
                  phaseTimerStart(transitionToState(c1, HotWaterRinse, Pouring), 10000)
              ELSE c1
    IN  shotTimerStart(c2)

\* variant: the Steam and HotWater timeouts are exchanged
startOperation_swapped(c, state) ==
    IF c.state # Idle /\ c.state # Sleep THEN c
    ELSE LET c1 == [c EXCEPT !.timer = 0, !.pressure = 0, !.flow = 0, !.frame = 0]
             c2 == IF state = Espresso THEN
                       phaseTimerStart(transitionToState(c1, Espresso, Heating), 2000)
                   ELSE IF state = Steam THEN
                       phaseTimerStart(transitionToState(c1, Steam, Steaming), 30000)
                   ELSE IF state = HotWater THEN
                       phaseTimerStart(transitionToState(c1, HotWater, Pouring), 45000)
                   ELSE IF state = HotWaterRinse THEN
                       phaseTimerStart(transitionToState(c1, HotWaterRinse, Pouring), 10000)
                   ELSE c1
         IN  shotTimerStart(c2)

\* variant: the GHC gate of the inbound requests is applied to the panel too
startOperation_gated(c, state) ==
    IF c.ghc = 3 \/ (c.state # Idle /\ c.state # Sleep) THEN c
    ELSE LET c1 == [c EXCEPT !.timer = 0, !.pressure = 0, !.flow = 0, !.frame = 0]
             c2 == IF state = Espresso THEN
                       phaseTimerStart(transitionToState(c1, Espresso, Heating), 2000)
                   ELSE IF state = Steam THEN
                       phaseTimerStart(transitionToState(c1, Steam, Steaming), 45000)
                   ELSE IF state = HotWater THEN
                       phaseTimerStart(transitionToState(c1, HotWater, Pouring), 30000)
                   ELSE IF state = HotWaterRinse THEN
                       phaseTimerStart(transitionToState(c1, HotWaterRinse, Pouring), 10000)
                   ELSE c1
         IN  shotTimerStart(c2)

startOperation(c, state) ==
    IF c.state # Idle /\ c.state # Sleep THEN c
    ELSE LET c1 == [c EXCEPT !.timer = 0, !.pressure = 0, !.flow = 0, !.frame = 0]
             c2 == IF state = Espresso THEN
                       phaseTimerStart(transitionToState(c1, Espresso, Heating), 2000)
                   ELSE IF state = Steam THEN
                       phaseTimerStart(transitionToState(c1, Steam, Steaming), 45000)
                   ELSE IF state = HotWater THEN
                       phaseTimerStart(transitionToState(c1, HotWater, Pouring), 30000)
                   ELSE IF state = HotWaterRinse THEN
                       phaseTimerStart(transitionToState(c1, HotWaterRinse, Pouring), 10000)
                   ELSE c1
         IN  shotTimerStart(c2)

\* goes to Sleep without stopping the operation first
onPowerClicked_noStop(c) ==
    IF c.state = Sleep THEN transitionToState(c, Idle, Ready)
    ELSE transitionToState(c, Sleep, Ready)

onPowerClicked(c) ==
    IF c.state = Sleep THEN transitionToState(c, Idle, Ready)
    ELSE transitionToState(stopOperation(c), Sleep, Ready)

onEspressoClicked(c) ==
    IF c.state = Espresso THEN stopOperation(c) ELSE startOperation(c, Espresso)

\* the button starts Steam whatever the current state
onSteamClicked_start(c) == startOperation(c, Steam)

onSteamClicked(c) ==
    IF c.state = Steam THEN stopOperation(c) ELSE startOperation(c, Steam)

onHotWaterClicked(c) ==
    IF c.state = HotWater THEN stopOperation(c) ELSE startOperation(c, HotWater)

onFlushClicked(c) ==
    IF c.state = HotWaterRinse THEN stopOperation(c) ELSE startOperation(c, HotWaterRinse)

onStopClicked(c) == stopOperation(c)

----------------------------------------------------------------------------
(* Connection *)

onConnected(c) == waterTimerStart([c EXCEPT !.connected = TRUE, !.buttons = TRUE])

\* variant: the phase timer is left running
onDisconnected_keepPhase(c) ==
    waterTimerStop(shotTimerStop(
        [c EXCEPT !.connected = FALSE, !.buttons = FALSE, !.bleClient = None]))

onDisconnected(c) ==
    waterTimerStop(phaseTimerStop(shotTimerStop(
        [c EXCEPT !.connected = FALSE, !.buttons = FALSE, !.bleClient = None])))

----------------------------------------------------------------------------
(* Inbound characteristic writes *)

\* variant: the GHC gate is missing
handleRequestedState_ungated(c, requested) == transitionToState(c, requested, Ready)

handleRequestedState(c, requested) ==
    IF c.ghc = 3 /\ requested # Sleep /\ requested # Idle THEN c
    ELSE transitionToState(c, requested, Ready)

\* the response carries the value but not the address
handleMMRReadRequest_noecho(c, value) ==
    IF Len(value) < 4 THEN c
    ELSE LET address == decodeAddress(SubSeq(value, 2, 4))
             echo == <<0, 0, 0, 0>>
             response ==
                 IF address = GHC_INFO THEN echo \o <<c.ghc % 256, 0, 0, 0>>
                 ELSE IF address = USB_CHARGER THEN echo \o <<1, 0, 0, 0>>
                 ELSE IF address = MACHINE_MODEL THEN echo \o <<2, 0, 0, 0>>
                 ELSE IF address = FIRMWARE_VERSION THEN echo \o <<1, 0, 0, 0>>
                 ELSE echo \o <<0, 0, 0, 0>>
         IN  sendNotification(c, CHAR_READ_FROM_MMR, response)

handleMMRReadRequest(c, value) ==
    IF Len(value) < 4 THEN c
    ELSE LET address == decodeAddress(SubSeq(value, 2, 4))
             echo == encodeUint32BE(address)
             response ==
                 IF address = GHC_INFO THEN echo \o <<c.ghc % 256, 0, 0, 0>>
                 ELSE IF address = USB_CHARGER THEN echo \o <<1, 0, 0, 0>>
                 ELSE IF address = MACHINE_MODEL THEN echo \o <<2, 0, 0, 0>>
                 ELSE IF address = FIRMWARE_VERSION THEN echo \o <<1, 0, 0, 0>>
                 ELSE echo \o <<0, 0, 0, 0>>
         IN  sendNotification(c, CHAR_READ_FROM_MMR, response)

\* handleMMRWrite and handleShotSettings decode their payload for the log only
handleMMRWrite(c, value) == c

handleShotSettings(c, value) == c

\* resize() without the clear() before it: old slots survive a new header
handleHeaderWrite_noclear(c, value) ==
    IF Len(value) < 5 THEN c
    ELSE [c EXCEPT !.header = [headerV |-> value[1], numFrames |-> value[2],
                               numPreinfuseFrames |-> value[3],
                               minPressure |-> decodeU8P4(value[4]),
                               maxFlow |-> decodeU8P4(value[5])],
                   !.frames = [i \in 1..value[2] |->
                                  IF i <= Len(c.frames) THEN c.frames[i] ELSE ProfileFrame]]

handleHeaderWrite(c, value) ==
    IF Len(value) < 5 THEN c
    ELSE [c EXCEPT !.header = [headerV |-> value[1], numFrames |-> value[2],
                               numPreinfuseFrames |-> value[3],
                               minPressure |-> decodeU8P4(value[4]),
                               maxFlow |-> decodeU8P4(value[5])],
                   !.frames = [i \in 1..value[2] |-> ProfileFrame]]

\* m_profileFrames[k] of the source is frames[k + 1] here
handleFrameWrite(c, value) ==
    IF Len(value) < 8 THEN c
    ELSE LET frameIdx == value[1]
             actualIdx == frameIdx - 32
         IN  IF frameIdx >= 32 THEN
                 IF actualIdx < Len(c.frames) THEN
                     [c EXCEPT !.frames[actualIdx + 1].hasExtension = TRUE,
                               !.frames[actualIdx + 1].limiterValue = decodeU8P4(value[2]),
                               !.frames[actualIdx + 1].limiterRange = decodeU8P4(value[3])]
                 ELSE c
             ELSE IF frameIdx = c.header.numFrames THEN c
             ELSE IF frameIdx < Len(c.frames) THEN
                 [c EXCEPT !.frames[frameIdx + 1].frameIndex = frameIdx,
                           !.frames[frameIdx + 1].flags = value[2],
                           !.frames[frameIdx + 1].setVal = decodeU8P4(value[3]),
                           !.frames[frameIdx + 1].temp = decodeU8P1(value[4]),
                           !.frames[frameIdx + 1].duration = decodeF8_1_7(value[5]),
                           !.frames[frameIdx + 1].triggerVal = decodeU8P4(value[6]),
                           !.frames[frameIdx + 1].maxVol = decodeU10P0(SubSeq(value, 7, 8))]
             ELSE c

\* variant: an empty REQUESTED_STATE payload is read as byte 0
handleCharacteristicWrite_nolen(c, charId, value) ==
    IF charId = CHAR_REQUESTED_STATE THEN
        handleRequestedState(c, IF Len(value) >= 1 THEN value[1] ELSE 0)
    ELSE IF charId = CHAR_READ_FROM_MMR THEN handleMMRReadRequest(c, value)
    ELSE IF charId = CHAR_WRITE_TO_MMR THEN handleMMRWrite(c, value)
    ELSE IF charId = CHAR_HEADER_WRITE THEN handleHeaderWrite(c, value)
    ELSE IF charId = CHAR_FRAME_WRITE THEN handleFrameWrite(c, value)
    ELSE IF charId = CHAR_SHOT_SETTINGS THEN handleShotSettings(c, value)
    ELSE c

handleCharacteristicWrite(c, charId, value) ==
    IF charId = CHAR_REQUESTED_STATE THEN
        IF Len(value) >= 1 THEN handleRequestedState(c, value[1]) ELSE c
    ELSE IF charId = CHAR_READ_FROM_MMR THEN handleMMRReadRequest(c, value)
    ELSE IF charId = CHAR_WRITE_TO_MMR THEN handleMMRWrite(c, value)
    ELSE IF charId = CHAR_HEADER_WRITE THEN handleHeaderWrite(c, value)
    ELSE IF charId = CHAR_FRAME_WRITE THEN handleFrameWrite(c, value)
    ELSE IF charId = CHAR_SHOT_SETTINGS THEN handleShotSettings(c, value)
    ELSE c

\* handlePiEvent: client, charId and data are the members "client", "char"
\* and "data" of the event ("advertising", "read" and "error" only write to
\* the log)
handlePiEvent(c, type, client, charId, data) ==
    IF type = "ready" THEN sendWaterLevel(sendStateNotification(c))
    ELSE IF type = "connected" THEN [c EXCEPT !.bleClient = client]
    ELSE IF type = "disconnected" THEN [c EXCEPT !.bleClient = None]
    ELSE IF type = "write" THEN handleCharacteristicWrite(c, charId, data)
    ELSE c

----------------------------------------------------------------------------
(* The control channel as the receiver sees it: bytes, lines, JSON documents *)

NL == 10
LBrace == 123
RBrace == 125
\* the bytes the model sends: a newline and the two bytes of the JSON text {}
Bytes == {NL, LBrace, RBrace}

\* the object without members: the document {} and, in Qt, the object() of a
\* document that failed to parse
EmptyObject == [cmd |-> "", event |-> "", client |-> "", char |-> "", data |-> <<>>]

\* QJsonDocument::fromJson over Bytes: {} is the only text that is one document
fromJson(line) ==
    [error |-> line # <<LBrace, RBrace>>, object |-> EmptyObject]

\* QByteArray::indexOf('\n'), 0-based, -1 when there is none
indexOfNL(buf) ==
    IF \E i \in 1..Len(buf) : buf[i] = NL
    THEN (CHOOSE i \in 1..Len(buf) : buf[i] = NL /\ \A j \in 1..(i - 1) : buf[j] # NL) - 1
    ELSE 0 - 1

\* QByteArray::left(n) and QByteArray::mid(n)
left(buf, n) == SubSeq(buf, 1, n)
mid(buf, n) == SubSeq(buf, n + 1, Len(buf))

\* the while loop of DE1Simulator::onDataReceived
RECURSIVE onDataReceived_loop(_)
onDataReceived_loop(c) ==
    LET newlineIdx == indexOfNL(c.tcpBuffer)
        line == left(c.tcpBuffer, newlineIdx)
        c1 == [c EXCEPT !.tcpBuffer = mid(@, newlineIdx + 1)]
        doc == fromJson(line)
    IN  IF newlineIdx < 0 THEN c
        ELSE IF line = <<>> THEN onDataReceived_loop(c1)
        ELSE IF doc.error THEN onDataReceived_loop(c1)
        ELSE onDataReceived_loop(
                 handlePiEvent([c1 EXCEPT !.lines = Append(@, line)],
                               doc.object.event, doc.object.client, doc.object.char,
                               doc.object.data))

\* chunk is what m_socket->readAll() returns
onDataReceived(c, chunk) ==
    onDataReceived_loop([c EXCEPT !.tcpBuffer = @ \o chunk, !.stream = @ \o chunk])

----------------------------------------------------------------------------
(* The Agent: class DE1BleDaemon.  The repository holds two sources of it,   *)
(* src/pi-daemon/de1-ble-daemon.cpp and the DAEMON_CPP string of main.cpp    *)
(* that the setup dialog copies to the Pi and builds there.                  *)

NotStarted == "not started"
PI_DAEMON == "pi-daemon/de1-ble-daemon.cpp"
DAEMON_CPP == "DAEMON_CPP"
DaemonSources == {PI_DAEMON, DAEMON_CPP}

NoClient == 0

\* QLowEnergyController::ControllerState of a peripheral
UnconnectedState == "UnconnectedState"
AdvertisingState == "AdvertisingState"
ConnectedState == "ConnectedState"

CHAR_VERSION == "A001"

Zeros(n) == [i \in 1..n |-> 0]

\* createDE1Service: the initial value of each characteristic
createDE1Service(src) ==
    (CHAR_VERSION :> <<2, 1, 0, 0>>) @@
    (CHAR_REQUESTED_STATE :> Zeros(1)) @@
    (CHAR_READ_FROM_MMR :> Zeros(IF src = PI_DAEMON THEN 8 ELSE 20)) @@
    (CHAR_WRITE_TO_MMR :> Zeros(IF src = PI_DAEMON THEN 8 ELSE 20)) @@
    (CHAR_SHOT_SETTINGS :> Zeros(IF src = PI_DAEMON THEN 8 ELSE 9)) @@
    (CHAR_SHOT_SAMPLE :> Zeros(19)) @@
    (CHAR_STATE_INFO :> <<2, 0>>) @@
    (CHAR_HEADER_WRITE :> Zeros(5)) @@
    (CHAR_FRAME_WRITE :> Zeros(8)) @@
    (CHAR_WATER_LEVELS :> <<75, 0>>)

ACur ==
    [src |-> daemonSource, boot |-> bootTimerPending, ble |-> bleState,
     gatt |-> gattValues, client |-> m_tcpClient, tcpBuffer |-> daemonBuffer,
     stream |-> winStream, lines |-> winLines, fx |-> <<>>]

ACommit(a) ==
    /\ daemonSource' = a.src
    /\ bootTimerPending' = a.boot
    /\ bleState' = a.ble
    /\ gattValues' = a.gatt
    /\ m_tcpClient' = a.client
    /\ daemonBuffer' = a.tcpBuffer
    /\ winStream' = a.stream
    /\ winLines' = a.lines
    /\ fx' = a.fx

\* the constructor; only de1-ble-daemon.cpp arms the single-shot timer that
\* starts advertising 100 ms after start-up
DE1BleDaemon(a, src) ==
    [a EXCEPT !.src = src, !.gatt = createDE1Service(src), !.boot = (src = PI_DAEMON)]

\* writes one JSON line to the attached client; nothing without a client
sendToWindows(a, event) ==
    IF a.client = NoClient THEN a ELSE Did(a, Effect("event", event, <<>>))

\* QLowEnergyController::startAdvertising acts in UnconnectedState only,
\* QLowEnergyController::stopAdvertising in AdvertisingState only
bleStartAdvertising(a) ==
    Did([a EXCEPT !.ble = IF @ = UnconnectedState THEN AdvertisingState ELSE @],
        Effect("ble", "startAdvertising", <<>>))

bleStopAdvertising(a) ==
    Did([a EXCEPT !.ble = IF @ = AdvertisingState THEN UnconnectedState ELSE @],
        Effect("ble", "stopAdvertising", <<>>))

\* m_de1Service is the service addService returned
startAdvertising(a) == sendToWindows(bleStartAdvertising(a), "advertising")

stopAdvertising(a) == bleStopAdvertising(a)

\* a new connection takes the place of the attached client
onTcpConnection_replace(a, socket) ==
    LET a1 == sendToWindows([a EXCEPT !.client = socket], "ready")
    IN  IF a.src = DAEMON_CPP THEN startAdvertising(a1) ELSE a1

\* socket is m_tcpServer->nextPendingConnection(); DAEMON_CPP also starts
\* advertising once the client is attached
onTcpConnection(a, socket) ==
    IF a.client # NoClient THEN Did(a, Effect("close", "socket", <<socket>>))
    ELSE LET a1 == sendToWindows([a EXCEPT !.client = socket], "ready")
         IN  IF a.src = DAEMON_CPP THEN startAdvertising(a1) ELSE a1

\* variant: the slot keeps the socket that has gone
onTcpDisconnected_keep(a) ==
    IF a.src = DAEMON_CPP THEN bleStopAdvertising(a) ELSE a

\* the lambda connected to QTcpSocket::disconnected of the attached client
onTcpDisconnected(a) ==
    LET a1 == [a EXCEPT !.client = NoClient]
    IN  IF a.src = DAEMON_CPP THEN bleStopAdvertising(a1) ELSE a1

\* the lambda connected to QLowEnergyController::connected
onBleConnected(a) == sendToWindows(a, "connected")

\* advertising is restarted before the event is written
onBleDisconnected_swapped(a) == sendToWindows(startAdvertising(a), "disconnected")

\* the lambda connected to QLowEnergyController::disconnected
onBleDisconnected(a) == startAdvertising(sendToWindows(a, "disconnected"))

\* the central wrote value to the characteristic: the event names both
onCharacteristicChanged(a, charId, value) ==
    IF a.client = NoClient THEN a ELSE Did(a, Effect("event_write", charId, value))

\* QLowEnergyService::writeCharacteristic on the peripheral's own service
\* variant: a value equal to the stored one is not written again
writeCharacteristic_ifChanged(a, charId, data) ==
    IF a.gatt[charId] = data THEN a
    ELSE Did([a EXCEPT !.gatt[charId] = data], Effect("gatt", charId, data))

\* variant: the write is announced and the value of the characteristic kept
writeCharacteristic_noStore(a, charId, data) ==
    Did(a, Effect("gatt", charId, data))

writeCharacteristic(a, charId, data) ==
    Did([a EXCEPT !.gatt[charId] = data], Effect("gatt", charId, data))

DE1BleDaemon_sendNotification(a, charId, data) ==
    IF charId \notin DOMAIN a.gatt THEN a ELSE writeCharacteristic(a, charId, data)

updateCharacteristic(a, charId, data) ==
    IF charId \notin DOMAIN a.gatt THEN a ELSE writeCharacteristic(a, charId, data)

\* handleCommand of de1-ble-daemon.cpp; DAEMON_CPP has the notify / update
\* branch inline in onTcpData and no start / stop command
\* variant: a command that is not known stops the advertising
handleCommand_stopUnknown(a, cmd) ==
    IF a.src = DAEMON_CPP THEN
        IF cmd.cmd \in {"notify", "update"} /\ cmd.char \in DOMAIN a.gatt
        THEN writeCharacteristic(a, cmd.char, cmd.data)
        ELSE a
    ELSE IF cmd.cmd = "notify" THEN DE1BleDaemon_sendNotification(a, cmd.char, cmd.data)
    ELSE IF cmd.cmd = "update" THEN updateCharacteristic(a, cmd.char, cmd.data)
    ELSE IF cmd.cmd = "start" THEN startAdvertising(a)
    ELSE stopAdvertising(a)

handleCommand(a, cmd) ==
    IF a.src = DAEMON_CPP THEN
        IF cmd.cmd \in {"notify", "update"} /\ cmd.char \in DOMAIN a.gatt
        THEN writeCharacteristic(a, cmd.char, cmd.data)
        ELSE a
    ELSE IF cmd.cmd = "notify" THEN DE1BleDaemon_sendNotification(a, cmd.char, cmd.data)
    ELSE IF cmd.cmd = "update" THEN updateCharacteristic(a, cmd.char, cmd.data)
    ELSE IF cmd.cmd = "start" THEN startAdvertising(a)
    ELSE IF cmd.cmd = "stop" THEN stopAdvertising(a)
    ELSE a

\* the while loop of onTcpData: only de1-ble-daemon.cpp tests the parse error,
\* DAEMON_CPP goes on with the object() of the failed document
RECURSIVE onTcpData_loop(_)
onTcpData_loop(a) ==
    LET newlineIdx == indexOfNL(a.tcpBuffer)
        line == left(a.tcpBuffer, newlineIdx)
        a1 == [a EXCEPT !.tcpBuffer = mid(@, newlineIdx + 1)]
        doc == fromJson(line)
    IN  IF newlineIdx < 0 THEN a
        ELSE IF line = <<>> THEN onTcpData_loop(a1)
        ELSE IF a.src = PI_DAEMON /\ doc.error THEN onTcpData_loop(a1)
        ELSE onTcpData_loop(handleCommand([a1 EXCEPT !.lines = Append(@, line)], doc.object))

\* the buffer is assigned what was read, not appended to
onTcpData_overwrite(a, chunk) ==
    IF a.client = NoClient THEN a
    ELSE onTcpData_loop([a EXCEPT !.tcpBuffer = chunk, !.stream = @ \o chunk])

\* chunk is what m_tcpClient->readAll() returns
onTcpData(a, chunk) ==
    IF a.client = NoClient THEN a
    ELSE onTcpData_loop([a EXCEPT !.tcpBuffer = @ \o chunk, !.stream = @ \o chunk])

----------------------------------------------------------------------------
(* Initial state: the field initialisers and the constructor *)

\* from: the (state, substate) pair that was current when the handler was entered
Op(name, what, data) ==
    [name |-> name, what |-> what, data |-> data,
     from |-> <<m_currentState, m_currentSubState>>]

Init ==
    /\ socketConnected = FALSE
    /\ buttonsEnabled = FALSE
    /\ readyDue = FALSE
    /\ ghcMode = 3
    /\ m_currentState = Idle
    /\ m_currentSubState = Ready
    /\ shotTimerActive = FALSE
    /\ phaseTimerActive = FALSE
    /\ waterTimerActive = FALSE
    /\ m_shotTimer_s = 0
    /\ m_pressure = 0
    /\ m_flow = 0
    /\ m_steamTemp = 0
    /\ m_frameNumber = 0
    /\ m_setPressure = Q(9, 1)
    /\ m_setFlow = Q(2, 1)
    /\ m_profileHeader = ProfileHeader
    /\ m_profileFrames = <<>>
    /\ written = {}
    /\ op = [name |-> "init", what |-> "", data |-> <<>>, from |-> <<Idle, Ready>>]
    /\ fx = <<>>
    /\ m_tcpBuffer = <<>>
    /\ piStream = <<>>
    /\ piLines = <<>>
    /\ daemonSource = NotStarted
    /\ bootTimerPending = FALSE
    /\ bleState = UnconnectedState
    /\ gattValues = <<>>
    /\ m_tcpClient = NoClient
    /\ daemonBuffer = <<>>
    /\ winStream = <<>>
    /\ winLines = <<>>
    /\ toAgent = <<>>
    /\ stateLog = <<>>
    /\ stateInfoLog = <<>>
    /\ m_bleClientLabel = None
    /\ bleEvents = <<>>

----------------------------------------------------------------------------
(* Inputs *)

\* REQUESTED_STATE payloads: states the engine names, one byte outside
\* DE1::State, and the empty payload
ReqPayloads == {<<>>, <<Sleep>>, <<Idle>>, <<Espresso>>, <<Steam>>, <<22>>}

\* first wire index of the frame extensions (frameIdx >= 32)
ExtensionBase == 32

HeaderNs == (0..MaxFrames) \cup {ExtensionBase, ExtensionBase + 1}
HeaderPayloads == {<<1, n, 1, 16, 32>> : n \in HeaderNs} \cup {<<1, 3, 1, 16>>}

FrameBody1 == <<1, 64, 190, 50, 0, 0, 100>>
FrameBody2 == <<34, 144, 184, 133, 16, 7, 255>>
SmallWire == (0..MaxFrames) \cup (ExtensionBase..(ExtensionBase + MaxFrames)) \cup {255}
\* the next index of an upload in ascending order
NextUnwritten == CHOOSE i \in 0..256 : i \notin written /\ \A j \in 0..(i - 1) : j \in written

----------------------------------------------------------------------------
(* Actions: one per slot of DE1Simulator *)

Machine(c, name, what, data) ==
    /\ Commit(c)
    /\ op' = Op(name, what, data)
    /\ UNCHANGED <<readyDue, written>>
    /\ UNCHANGED agentVars
    /\ UNCHANGED linkVars

SocketConnected ==
    /\ ~socketConnected
    /\ Commit(onConnected(Cur))
    /\ readyDue' = TRUE
    /\ op' = Op("onConnected", "", <<>>)
    /\ UNCHANGED written
    /\ UNCHANGED agentVars
    /\ UNCHANGED linkVars

SocketDisconnected ==
    /\ socketConnected
    /\ Commit(onDisconnected(Cur))
    /\ readyDue' = FALSE
    /\ op' = Op("onDisconnected", "", <<>>)
    /\ UNCHANGED written
    /\ UNCHANGED agentVars
    /\ UNCHANGED linkVars

PiReady ==
    /\ socketConnected
    /\ readyDue
    /\ Commit(handlePiEvent(Cur, "ready", "", "", <<>>))
    /\ readyDue' = FALSE
    /\ op' = Op("ready", "", <<>>)
    /\ UNCHANGED written
    /\ UNCHANGED agentVars
    /\ UNCHANGED linkVars

BleWrite(charId, value) ==
    /\ socketConnected
    /\ Commit(handlePiEvent(Cur, "write", "", charId, value))
    /\ op' = Op("write", charId, value)
    /\ written' = IF charId = CHAR_HEADER_WRITE /\ Len(value) >= 5 THEN {}
                  ELSE IF /\ charId = CHAR_FRAME_WRITE
                          /\ Len(value) >= 8
                          /\ value[1] < m_profileHeader.numFrames
                       THEN written \cup {value[1]}
                  ELSE written
    /\ UNCHANGED readyDue
    /\ UNCHANGED agentVars
    /\ UNCHANGED linkVars

WriteRequestedState == \E v \in ReqPayloads : BleWrite(CHAR_REQUESTED_STATE, v)

WriteHeader == \E v \in HeaderPayloads : BleWrite(CHAR_HEADER_WRITE, v)

WriteFrame ==
    \E idx \in SmallWire \cup {NextUnwritten}, body \in {FrameBody1, FrameBody2} :
        /\ idx \in {0, ExtensionBase} \/ body = FrameBody1
        /\ idx <= 255
        /\ BleWrite(CHAR_FRAME_WRITE, <<idx>> \o body)

WriteShortFrame == BleWrite(CHAR_FRAME_WRITE, <<0>> \o SubSeq(FrameBody1, 1, 6))

ClickPower == buttonsEnabled /\ Machine(onPowerClicked(Cur), "onPowerClicked", "", <<>>)
ClickEspresso == buttonsEnabled /\ Machine(onEspressoClicked(Cur), "onEspressoClicked", "", <<Espresso>>)
ClickSteam == buttonsEnabled /\ Machine(onSteamClicked(Cur), "onSteamClicked", "", <<Steam>>)
ClickHotWater == buttonsEnabled /\ Machine(onHotWaterClicked(Cur), "onHotWaterClicked", "", <<HotWater>>)
ClickFlush == buttonsEnabled /\ Machine(onFlushClicked(Cur), "onFlushClicked", "", <<HotWaterRinse>>)
ClickStop == buttonsEnabled /\ Machine(onStopClicked(Cur), "onStopClicked", "", <<>>)

SetGhcMode ==
    \E m \in 0..4 :
        /\ m # ghcMode
        /\ Machine([Cur EXCEPT !.ghc = m], "setGhcMode", "", <<m>>)

\* a single-shot QTimer is stopped before its timeout signal is emitted
PhaseTimerFires ==
    /\ phaseTimerActive
    /\ Machine(onPhaseTimeout([Cur EXCEPT !.phaseOn = FALSE]), "onPhaseTimeout", "", <<>>)

ShotTimerFires ==
    /\ shotTimerActive
    /\ m_shotTimer_s < MaxTicks * Q(1, 5)
    /\ \E sin \in PouringSamples :
           Machine(onShotTimerTick(Cur, sin[1], sin[2]), "onShotTimerTick", "", <<>>)

WaterTimerFires ==
    /\ waterTimerActive
    /\ Machine(sendWaterLevel(Cur), "sendWaterLevel", "", <<>>)

Next ==
    \/ SocketConnected
    \/ SocketDisconnected
    \/ PiReady
    \/ WriteRequestedState
    \/ ClickPower
    \/ ClickEspresso
    \/ ClickSteam
    \/ ClickHotWater
    \/ ClickFlush
    \/ ClickStop
    \/ SetGhcMode
    \/ PhaseTimerFires
    \/ ShotTimerFires
    \/ WaterTimerFires

Spec == Init /\ [][Next]_vars

----------------------------------------------------------------------------
(* Actions of the Agent: one per slot of DE1BleDaemon *)

\* the variables of the Controller that no slot of the Agent touches
controllerVars == <<socketConnected, buttonsEnabled, readyDue, ghcMode, m_currentState,
                    m_currentSubState, shotTimerActive, phaseTimerActive,
                    waterTimerActive, m_shotTimer_s, m_pressure, m_flow, m_steamTemp,
                    m_frameNumber, m_setPressure, m_setFlow, m_profileHeader,
                    m_profileFrames, written, m_tcpBuffer, piStream, piLines,
                    m_bleClientLabel>>

AgentStep(a, name, what, data) ==
    /\ ACommit(a)
    /\ op' = Op(name, what, data)
    /\ UNCHANGED controllerVars
    /\ UNCHANGED linkVars

\* main() of the daemon: one of the two sources is what runs on the Pi
DaemonStarts ==
    /\ daemonSource = NotStarted
    /\ \E src \in DaemonSources : AgentStep(DE1BleDaemon(ACur, src), "DE1BleDaemon", src, <<>>)

\* QTimer::singleShot(100, this, &DE1BleDaemon::startAdvertising)
BootTimerFires ==
    /\ bootTimerPending
    /\ AgentStep(startAdvertising([ACur EXCEPT !.boot = FALSE]), "singleShot", "", <<>>)

TcpConnects ==
    /\ daemonSource # NotStarted
    /\ \E socket \in 1..MaxSockets :
          /\ socket # m_tcpClient
          /\ AgentStep(onTcpConnection(ACur, socket), "onTcpConnection", "", <<socket>>)

TcpDisconnects ==
    /\ m_tcpClient # NoClient
    /\ AgentStep(onTcpDisconnected(ACur), "onTcpDisconnected", "", <<m_tcpClient>>)

\* a central connects to the advertising peripheral: the controller leaves
\* AdvertisingState for ConnectedState and emits connected()
BleCentralConnects ==
    /\ bleState = AdvertisingState
    /\ AgentStep(onBleConnected([ACur EXCEPT !.ble = ConnectedState]), "bleConnected", "", <<>>)

\* the central goes: UnconnectedState, then disconnected()
BleCentralDisconnects ==
    /\ bleState = ConnectedState
    /\ AgentStep(onBleDisconnected([ACur EXCEPT !.ble = UnconnectedState]),
                 "bleDisconnected", "", <<>>)

CentralWritePayloads == {<<Espresso>>, <<Idle>>}

\* the connected central writes REQUESTED_STATE: the service stores the value
\* and emits characteristicChanged
CentralWrites ==
    /\ bleState = ConnectedState
    /\ \E value \in CentralWritePayloads :
          AgentStep(onCharacteristicChanged(
                        [ACur EXCEPT !.gatt[CHAR_REQUESTED_STATE] = value],
                        CHAR_REQUESTED_STATE, value),
                    "onCharacteristicChanged", CHAR_REQUESTED_STATE, value)

Command(cmd, charId, data) ==
    [cmd |-> cmd, event |-> "", client |-> "", char |-> charId, data |-> data]

\* commands of the Controller, two naming no characteristic of the service and
\* one with a cmd the Agent does not know
AgentCommands ==
    {Command("notify", CHAR_STATE_INFO, <<Espresso, Heating>>),
     Command("update", CHAR_WATER_LEVELS, <<50, 0>>),
     Command("notify", "FFFF", <<1>>),
     Command("update", "A0FF", <<2>>),
     Command("start", "", <<>>),
     Command("stop", "", <<>>),
     Command("reset", "", <<>>)}

\* onTcpData when what it reads is exactly the line of one command and
\* nothing is buffered: the loop runs handleCommand once
CommandArrives ==
    /\ m_tcpClient # NoClient
    /\ daemonBuffer = <<>>
    /\ \E cmd \in AgentCommands :
          AgentStep(handleCommand(ACur, cmd), cmd.cmd, cmd.char, cmd.data)

\* the chunks a readAll() can return within the bound on the bytes read
Chunks(n) == UNION {[1..k -> Bytes] : k \in 1..n}
BytesLeft == MaxStream - Len(piStream) - Len(winStream)

\* readyRead of the Agent's client socket
TcpDataArrives ==
    /\ m_tcpClient # NoClient
    /\ \E chunk \in Chunks(BytesLeft) :
          AgentStep(onTcpData(ACur, chunk), "onTcpData", "", chunk)

\* readyRead of the Controller's socket
DataReceived ==
    /\ socketConnected
    /\ \E chunk \in Chunks(BytesLeft) :
          Machine(onDataReceived(Cur, chunk), "onDataReceived", "", chunk)

NextAgent ==
    \/ DaemonStarts
    \/ BootTimerFires
    \/ TcpConnects
    \/ TcpDisconnects
    \/ BleCentralConnects
    \/ BleCentralDisconnects
    \/ CentralWrites
    \/ CommandArrives

SpecAgent == Init /\ [][NextAgent]_vars

\* the event loop of the daemon runs a pending single-shot timer
FairAgent == SpecAgent /\ WF_vars(BootTimerFires)

\* the two receivers of the control channel, each in a session
NextLines ==
    \/ SocketConnected
    \/ DaemonStarts
    \/ TcpConnects
    \/ DataReceived
    \/ TcpDataArrives

SpecLines == Init /\ [][NextLines]_vars

\* READ_FROM_MMR requests: a length byte and the three address bytes of each
\* address the responder knows, of GHC_MODE and of an address it does not
\* know; one longer request; one request that is too short
MMRReadPayloads ==
    {<<4, 128, 56, 28>>, <<4, 128, 56, 32>>, <<4, 128, 56, 84>>, <<4, 128, 0, 12>>,
     <<4, 128, 0, 16>>, <<4, 18, 52, 86>>, <<4, 128, 56, 28, 0>>, <<4, 128, 56>>}

WriteReadFromMMR == \E v \in MMRReadPayloads : BleWrite(CHAR_READ_FROM_MMR, v)

\* the MMR responder alone: the session, the GHC selector and the requests
NextMMR ==
    \/ SocketConnected
    \/ SocketDisconnected
    \/ PiReady
    \/ SetGhcMode
    \/ WriteReadFromMMR

SpecMMR == Init /\ [][NextMMR]_vars

\* the profile assembler alone: the session and the HEADER_WRITE / FRAME_WRITE handlers
NextProfile ==
    \/ SocketConnected
    \/ SocketDisconnected
    \/ WriteHeader
    \/ WriteFrame
    \/ WriteShortFrame

SpecProfile == Init /\ [][NextProfile]_vars

----------------------------------------------------------------------------
(* Vocabulary of the properties *)

ActiveStates == {Espresso, Steam, HotWater, HotWaterRinse}
StartOps == {"onEspressoClicked", "onSteamClicked", "onHotWaterClicked", "onFlushClicked"}

IsStateInfo(e) == e.t = "notify" /\ e.what = CHAR_STATE_INFO
IsAssign(e) == e.t = "assign"
\* payloads of the STATE_INFO notifications of the last handler, in order
StateInfos == [i \in 1..Len(SelectSeq(fx, IsStateInfo)) |-> SelectSeq(fx, IsStateInfo)[i].data]
\* pairs the last handler made current, in order
Transitions == [i \in 1..Len(SelectSeq(fx, IsAssign)) |-> SelectSeq(fx, IsAssign)[i].data]

IsReqWrite(o, b) == o.name = "write" /\ o.what = CHAR_REQUESTED_STATE /\ o.data = <<b>>

machineVars == <<m_currentState, m_currentSubState, shotTimerActive, phaseTimerActive,
                 m_shotTimer_s, m_pressure, m_flow, m_steamTemp, m_frameNumber,
                 m_setPressure, m_setFlow>>

----------------------------------------------------------------------------
(* C1: with (Idle, Ready) current and GHC mode 0, the handler of a
   REQUESTED_STATE write 04 makes (Espresso, Heating) current and emits
   STATE_INFO 04 01 in that same step. *)
Claim_C1 ==
    [][(/\ m_currentState = Idle
        /\ m_currentSubState = Ready
        /\ ghcMode = 0
        /\ IsReqWrite(op', Espresso))
       => (/\ m_currentState' = Espresso
           /\ m_currentSubState' = Heating
           /\ StateInfos' = << <<Espresso, Heating>> >>)]_vars

(* C2: in GHC mode 3 a REQUESTED_STATE write naming a state other than Sleep
   or Idle leaves the pair and both operation timers as they were and emits
   nothing; every other REQUESTED_STATE write (Sleep or Idle in mode 3, any
   state in modes 0, 1, 2, 4) makes the named state current and emits its
   STATE_INFO. *)
Thm_C2 ==
    [][(op'.name = "write" /\ op'.what = CHAR_REQUESTED_STATE /\ Len(op'.data) >= 1) =>
        LET b == op'.data[1]
        IN  IF ghcMode = 3 /\ b \notin {Sleep, Idle}
            THEN /\ UNCHANGED <<m_currentState, m_currentSubState,
                                shotTimerActive, phaseTimerActive>>
                 /\ fx' = <<>>
            ELSE /\ m_currentState' = b
                 /\ StateInfos' = << <<b, m_currentSubState'>> >>]_vars

Wit_C2 ==
    /\ IsReqWrite(op, Espresso)
    /\ ghcMode = 3
    /\ op.from = <<Idle, Ready>>
    /\ m_currentState = Idle
    /\ fx = <<>>

(* C3: under phase timeouts, shot-timer ticks and REQUESTED_STATE writes,
   Espresso starts in Heating, and while Espresso is current the pair either
   stays or moves one rung: Heating -> Preinfusion -> Pouring -> Ending ->
   (Idle, Ready). *)
Claim_C3 ==
    [][op'.name \in {"onPhaseTimeout", "onShotTimerTick", "write"} =>
        /\ (m_currentState # Espresso /\ m_currentState' = Espresso)
               => m_currentSubState' = Heating
        /\ m_currentState = Espresso =>
               \/ UNCHANGED <<m_currentState, m_currentSubState>>
               \/ /\ m_currentState' = Espresso
                  /\ <<m_currentSubState, m_currentSubState'>> \in
                         {<<Heating, Preinfusion>>, <<Preinfusion, Pouring>>,
                          <<Pouring, Ending>>}
               \/ /\ m_currentSubState = Ending
                  /\ m_currentState' = Idle
                  /\ m_currentSubState' = Ready]_vars

(* C4 as stated: the STATE_INFO payloads a handler emits are exactly the
   pairs it made current, one each and in order, and none is emitted by a
   handler that made no pair current. *)
Claim_C4 == StateInfos = Transitions

\* every assignment of the pair is followed at once by its STATE_INFO, and
\* every STATE_INFO follows an assignment of the pair it carries
OncePerTransition ==
    /\ \A i \in 1..Len(fx) :
           IsAssign(fx[i]) =>
               /\ i < Len(fx)
               /\ IsStateInfo(fx[i + 1])
               /\ fx[i + 1].data = fx[i].data
    /\ \A i \in 1..Len(fx) :
           IsStateInfo(fx[i]) => i > 1 /\ IsAssign(fx[i - 1])
    /\ Transitions # <<>> =>
           Transitions[Len(Transitions)] = <<m_currentState, m_currentSubState>>

(* C4 amended: STATE_INFO is emitted exactly once per transition with the
   post-transition pair as payload; the only STATE_INFO emitted without a
   transition is the one that answers the Agent's ready event, and it carries
   the current pair. *)
Thm_C4 ==
    IF op.name = "ready"
    THEN Transitions = <<>> /\ StateInfos = << <<m_currentState, m_currentSubState>> >>
    ELSE OncePerTransition

Wit_C4 ==
    /\ op.name = "onPowerClicked"
    /\ op.from[1] = Espresso
    /\ StateInfos = << <<Idle, Ready>>, <<Sleep, Ready>> >>

(* C5: the shot-sample timer is running exactly when the current state is
   one of Espresso, Steam, HotWater, HotWaterRinse. *)
Claim_C5 == shotTimerActive <=> m_currentState \in ActiveStates

\* what stopOperation leaves: the two timers cancelled first, then the
\* transition to (Idle, Ready) with its STATE_INFO 02 00
StopEffects ==
    <<Effect("stop", "shot", <<>>), Effect("stop", "phase", <<>>),
      Effect("assign", "pair", <<Idle, Ready>>),
      Effect("notify", CHAR_STATE_INFO, <<Idle, Ready>>)>>

Stopped ==
    /\ ~shotTimerActive
    /\ ~phaseTimerActive
    /\ m_pressure = 0
    /\ m_flow = 0
    /\ m_steamTemp = 0
    /\ m_frameNumber = 0
    /\ m_currentState = Idle
    /\ m_currentSubState = Ready

(* C6: operator Stop and the timeout that ends the Espresso ladder cancel the
   shot-sample and phase timers before they emit the transition, zero
   pressure, flow, steam temperature and frame number and make (Idle, Ready)
   current with STATE_INFO 02 00; afterwards a timer that is not running
   produces no SHOT_SAMPLE and no phase timeout, and only a start command
   sets a stopped timer running again. *)
Thm_C6 ==
    [][/\ (\/ op'.name = "onStopClicked"
           \/ op'.name = "onPhaseTimeout" /\ op'.from = <<Espresso, Ending>>)
          => Stopped' /\ fx' = StopEffects
       /\ op'.name = "onShotTimerTick" => shotTimerActive
       /\ op'.name = "onPhaseTimeout" => phaseTimerActive
       /\ (~shotTimerActive /\ shotTimerActive') => op'.name \in StartOps
       /\ (~phaseTimerActive /\ phaseTimerActive') => op'.name \in StartOps]_vars

Wit_C6 ==
    /\ op.name = "onStopClicked"
    /\ op.from = <<Espresso, Pouring>>
    /\ Stopped
    /\ fx = StopEffects

(* C7: a start command whose target differs from the current state starts the
   target when the current state is Idle or Sleep; in every other current
   state it changes neither the pair, the timers, the shot timer nor the live
   values and emits nothing. *)
Thm_C7 ==
    [][(op'.name \in StartOps /\ op'.data[1] # m_currentState) =>
        IF m_currentState \in {Idle, Sleep}
        THEN m_currentState' = op'.data[1] /\ StateInfos' # <<>>
        ELSE UNCHANGED machineVars /\ fx' = <<>>]_vars

Wit_C7 ==
    /\ op.name = "onSteamClicked"
    /\ op.from = <<Espresso, Pouring>>
    /\ m_currentState = Espresso
    /\ m_currentSubState = Pouring
    /\ shotTimerActive
    /\ fx = <<>>

\* target state -> <<initial substate, timeout in ms>>
StartTable ==
    (Espresso :> <<Heating, 2000>>) @@ (Steam :> <<Steaming, 45000>>) @@
    (HotWater :> <<Pouring, 30000>>) @@ (HotWaterRinse :> <<Pouring, 10000>>)

(* C8: a honoured start makes (target, initial substate) current, arms the
   phase timer with the target's timeout (Espresso Heating 2000, Steam
   Steaming 45000, HotWater Pouring 30000, HotWaterRinse Pouring 10000),
   zeroes shot timer, pressure, flow and frame number and starts the
   shot-sample timer. *)
Thm_C8 ==
    [][(/\ op'.name \in StartOps
        /\ op'.data[1] # m_currentState
        /\ m_currentState \in {Idle, Sleep}) =>
        LET target == op'.data[1]
        IN  /\ m_currentState' = target
            /\ m_currentSubState' = StartTable[target][1]
            /\ StateInfos' = << <<target, StartTable[target][1]>> >>
            /\ phaseTimerActive'
            /\ \E i \in 1..Len(fx') :
                   fx'[i] = Effect("start", "phase", <<StartTable[target][2]>>)
            /\ \A i \in 1..Len(fx') :
                   (fx'[i].t = "start" /\ fx'[i].what = "phase")
                       => fx'[i].data = <<StartTable[target][2]>>
            /\ shotTimerActive'
            /\ m_shotTimer_s' = 0
            /\ m_pressure' = 0
            /\ m_flow' = 0
            /\ m_frameNumber' = 0]_vars

Wit_C8 ==
    /\ op.name = "onHotWaterClicked"
    /\ op.from = <<Sleep, Ready>>
    /\ m_currentState = HotWater
    /\ m_currentSubState = Pouring
    /\ phaseTimerActive
    /\ shotTimerActive

\* the phase timer is the only source of progress the claims assume: an armed
\* QTimer fires unless it is stopped
\* The single-timer operations are checked without the Espresso button, the
\* ready event and the water timer, none of which acts on them.
NextSingle ==
    \/ SocketConnected
    \/ SocketDisconnected
    \/ WriteRequestedState
    \/ ClickPower
    \/ ClickSteam
    \/ ClickHotWater
    \/ ClickFlush
    \/ ClickStop
    \/ SetGhcMode
    \/ PhaseTimerFires
    \/ ShotTimerFires

FairSingle == Init /\ [][NextSingle]_vars /\ WF_vars(PhaseTimerFires)

SingleTimerStates == {Steam, HotWater, HotWaterRinse}

\* a handler cut the operation short: Power, Stop, a disconnect, or a
\* REQUESTED_STATE write that was let through
Interrupted ==
    \/ op.name \in {"onPowerClicked", "onStopClicked", "onDisconnected"}
    \/ op.name = "write" /\ fx # <<>>

(* C9: when the phase timer fires in Steam, HotWater or HotWaterRinse the
   machine goes to (Idle, Ready) with both timers cancelled; and every such
   operation whose phase timer is armed reaches (Idle, Ready) with both timers
   cancelled unless a handler interrupts it. *)
Thm_C9 ==
    /\ [][(op'.name = "onPhaseTimeout" /\ op'.from[1] \in SingleTimerStates)
             => Stopped' /\ fx' = StopEffects]_vars
    /\ (m_currentState \in SingleTimerStates /\ phaseTimerActive)
           ~> (Stopped \/ Interrupted)

Wit_C9 ==
    /\ op.name = "onPhaseTimeout"
    /\ op.from = <<Steam, Steaming>>
    /\ Stopped

\* m_profileFrames[i] of the source
FrameAt(i) == m_profileFrames[i + 1]

(* C10: once the frames at all wire indices 0..N-1 have been written after a
   header with numFrames = N, the profile has exactly N frames and
   frames[i].frameIndex = i for every i in 0..N-1. *)
Claim_C10 ==
    (\A i \in 0..(m_profileHeader.numFrames - 1) : i \in written) =>
        /\ Len(m_profileFrames) = m_profileHeader.numFrames
        /\ \A i \in 0..(m_profileHeader.numFrames - 1) : FrameAt(i).frameIndex = i

----------------------------------------------------------------------------
(* Frame classification and profile size (4.E) *)

IsFrameWrite(o) == o.name = "write" /\ o.what = CHAR_FRAME_WRITE /\ Len(o.data) >= 8
IsHeaderWrite(o) == o.name = "write" /\ o.what = CHAR_HEADER_WRITE /\ Len(o.data) >= 5

\* the record the 8 payload bytes v describe, stored over the slot f
PrimaryOf(f, v) ==
    [f EXCEPT !.frameIndex = v[1], !.flags = v[2], !.setVal = decodeU8P4(v[3]),
              !.temp = decodeU8P1(v[4]), !.duration = decodeF8_1_7(v[5]),
              !.triggerVal = decodeU8P4(v[6]), !.maxVol = decodeU10P0(SubSeq(v, 7, 8))]

ExtensionOf(f, v) ==
    [f EXCEPT !.hasExtension = TRUE, !.limiterValue = decodeU8P4(v[2]),
              !.limiterRange = decodeU8P4(v[3])]

(* C11: an 8-byte frame write with wire index i against a header of N frames
   is a primary frame stored at index i when i < N, a tail marker that changes
   nothing when i = N, an extension that sets the limiter of frame i - 32 when
   32 <= i < 32 + N, and otherwise leaves header and frames unchanged. *)
Claim_C11 ==
    [][IsFrameWrite(op') =>
        LET v == op'.data
            i == v[1]
            N == m_profileHeader.numFrames
        IN  /\ m_profileHeader' = m_profileHeader
            /\ IF i < N THEN
                   m_profileFrames' = [m_profileFrames EXCEPT ![i + 1] = PrimaryOf(@, v)]
               ELSE IF i = N THEN
                   m_profileFrames' = m_profileFrames
               ELSE IF i >= ExtensionBase /\ i < ExtensionBase + N THEN
                   m_profileFrames' = [m_profileFrames EXCEPT ![i - ExtensionBase + 1] = ExtensionOf(@, v)]
               ELSE m_profileFrames' = m_profileFrames]_vars

ZeroedSlots(n) == [i \in 1..n |-> ProfileFrame]

(* C12: in every reachable state the profile has as many frame records as the
   numFrames of the last accepted header (none before any header); a header
   write replaces the whole profile with N zeroed slots; a frame write never
   changes the number of records nor the header. *)
Thm_C12 ==
    /\ [](Len(m_profileFrames) = m_profileHeader.numFrames)
    /\ [][/\ IsHeaderWrite(op') =>
                /\ m_profileHeader'.numFrames = op'.data[2]
                /\ m_profileFrames' = ZeroedSlots(op'.data[2])
          /\ (op'.name = "write" /\ op'.what = CHAR_FRAME_WRITE) =>
                /\ Len(m_profileFrames') = Len(m_profileFrames)
                /\ m_profileHeader' = m_profileHeader
          /\ (op'.name = "write" /\ op'.what = CHAR_HEADER_WRITE /\ Len(op'.data) < 5) =>
                /\ m_profileFrames' = m_profileFrames
                /\ m_profileHeader' = m_profileHeader]_vars

\* a header of MaxFrames frames has just been accepted: the profile is MaxFrames zeroed slots
Wit_C12 ==
    /\ IsHeaderWrite(op)
    /\ op.data[2] = MaxFrames
    /\ m_profileFrames = ZeroedSlots(MaxFrames)
    /\ written = {}

----------------------------------------------------------------------------
(* The Agent and its one Controller (4.D) *)

\* what the Agent holds for the attached session
sessionVars == <<m_tcpClient, daemonBuffer, winStream, winLines>>
\* what the Agent holds for the BLE side
bleVars == <<bleState, gattValues>>

IsEvent(e) == e.t \in {"event", "event_write"}
\* the events the last handler wrote to the attached Controller, in order
Events == [i \in 1..Len(SelectSeq(fx, IsEvent)) |-> SelectSeq(fx, IsEvent)[i].what]

(* C13: a TCP connection that arrives while a Controller is attached is
   closed; it does not become the attached client, no event (so no ready) is
   written, and the attached session (client, receive buffer) and the BLE
   side are as they were. *)
Thm_C13 ==
    [][(op'.name = "onTcpConnection" /\ m_tcpClient # NoClient) =>
        /\ m_tcpClient' = m_tcpClient
        /\ op'.data # <<m_tcpClient'>>
        /\ fx' = <<Effect("close", "socket", op'.data)>>
        /\ UNCHANGED sessionVars
        /\ UNCHANGED bleVars]_vars

\* a second connection has just been turned away
Wit_C13 ==
    /\ op.name = "onTcpConnection"
    /\ m_tcpClient # NoClient
    /\ op.data # <<m_tcpClient>>
    /\ fx = <<Effect("close", "socket", op.data)>>

(* C14: when the attached Controller disconnects, the Agent keeps its BLE
   state: the controller's state (advertising, or a central connected) and
   the characteristic values are what they were. *)
Claim_C14 ==
    [][op'.name = "onTcpDisconnected" => UNCHANGED bleVars]_vars

\* the last handler restarted advertising: it called the controller, which advertises
Restarted ==
    /\ \E i \in 1..Len(fx) : fx[i] = Effect("ble", "startAdvertising", <<>>)
    /\ bleState = AdvertisingState

(* C15: on every BLE central disconnect the Agent writes a disconnected event
   to the Controller and restarts advertising, the disconnected event before
   the advertising event of the restart; on every BLE central connect it
   writes a connected event. *)
Claim_C15 ==
    [][/\ op'.name = "bleDisconnected" =>
              Events' = <<"disconnected", "advertising">> /\ Restarted'
       /\ op'.name = "bleConnected" => Events' = <<"connected">>]_vars

(* C15, amended: the events are written only while a Controller is attached;
   with none attached the handlers write nothing, and advertising is restarted
   after a disconnect all the same. *)
Thm_C15 ==
    [][/\ op'.name = "bleDisconnected" =>
              /\ Restarted'
              /\ Events' = IF m_tcpClient # NoClient
                           THEN <<"disconnected", "advertising">> ELSE <<>>
       /\ op'.name = "bleConnected" =>
              /\ bleState' = ConnectedState
              /\ Events' = IF m_tcpClient # NoClient THEN <<"connected">> ELSE <<>>
       /\ op'.name \in {"bleDisconnected", "bleConnected"} =>
              UNCHANGED <<sessionVars, gattValues>>]_vars

\* a central has just left while a Controller was attached
Wit_C15 ==
    /\ op.name = "bleDisconnected"
    /\ m_tcpClient # NoClient
    /\ Events = <<"disconnected", "advertising">>
    /\ Restarted

Advertises == bleState = AdvertisingState
Attached == m_tcpClient # NoClient

(* C16: the Agent starts advertising on boot whether or not a Controller is
   attached: once started it eventually advertises although no Controller has
   connected; that is, in every behaviour the daemon is never started, or a
   Controller attaches, or the Agent advertises. *)
Claim_C16 == [](daemonSource = NotStarted) \/ <>(Advertises \/ Attached)

----------------------------------------------------------------------------
(* Line reassembly (4.C) *)

\* the newline-terminated lines of a stream, in order; cur is the line begun
RECURSIVE CompleteLines(_, _)
CompleteLines(stream, cur) ==
    IF stream = <<>> THEN <<>>
    ELSE IF Head(stream) = NL THEN <<cur>> \o CompleteLines(Tail(stream), <<>>)
    ELSE CompleteLines(Tail(stream), Append(cur, Head(stream)))

\* the bytes after the last newline of a stream
AfterLastNL(stream) ==
    LET ends == {i \in 1..Len(stream) : stream[i] = NL}
        last == IF ends = {} THEN 0 ELSE CHOOSE i \in ends : \A j \in ends : j <= i
    IN  SubSeq(stream, last + 1, Len(stream))

IsHandled(line) == line # <<>> /\ ~fromJson(line).error
\* the lines a receiver is to handle: not empty, valid JSON
HandledLines(stream) == SelectSeq(CompleteLines(stream, <<>>), IsHandled)

(* C17: whatever the chunks in which a stream was read, the receiver (the
   Controller's onDataReceived, the Agent's onTcpData of de1-ble-daemon.cpp)
   has handled exactly the newline-terminated lines of the concatenated
   stream that are neither empty nor invalid JSON, in order, going on after an
   empty or invalid line, and holds the bytes after the last newline in its
   buffer. *)
Thm_C17 ==
    /\ piLines = HandledLines(piStream)
    /\ m_tcpBuffer = AfterLastNL(piStream)
    /\ daemonSource = PI_DAEMON => winLines = HandledLines(winStream)
    /\ daemonBuffer = AfterLastNL(winStream)

\* the Agent has read an empty line and the first byte of a line, and then a
\* chunk that ends that line and begins the next: one line handled, one byte kept
Wit_C17 ==
    /\ op.name = "onTcpData"
    /\ op.data = <<RBrace, NL, LBrace>>
    /\ daemonSource = PI_DAEMON
    /\ winStream = <<NL, LBrace, RBrace, NL, LBrace>>
    /\ winLines = << <<LBrace, RBrace>> >>
    /\ daemonBuffer = <<LBrace>>

----------------------------------------------------------------------------
(* The MMR responder (4.F) *)

IsMMRRead(o) == o.name = "write" /\ o.what = CHAR_READ_FROM_MMR /\ Len(o.data) >= 4

\* the address of a request as a number, and as the four bytes of a
\* big-endian 32-bit word
RequestAddress(v) == v[2] * 65536 + v[3] * 256 + v[4]
AddressEcho(v) == <<0, v[2], v[3], v[4]>>
\* a 32-bit value, least significant byte first
LittleEndian32(x) ==
    <<x % 256, (x \div 256) % 256, (x \div 65536) % 256, (x \div 16777216) % 256>>

\* the table of 4.F with the GHC mode served at ghcAddress
CannedValue(address, ghcAddress, ghc) ==
    IF address = ghcAddress THEN ghc
    ELSE IF address = USB_CHARGER THEN 1
    ELSE IF address = MACHINE_MODEL THEN 2
    ELSE IF address = FIRMWARE_VERSION THEN 1
    ELSE 0

MMRResponse(v, ghcAddress, ghc) ==
    <<Effect("notify", CHAR_READ_FROM_MMR,
             AddressEcho(v) \o LittleEndian32(CannedValue(RequestAddress(v), ghcAddress, ghc)))>>

(* C18: every read-from-MMR request of at least 4 bytes produces exactly one
   READ_FROM_MMR notification of 8 bytes: bytes [0..4) are the address of
   request bytes [1..4) big-endian, bytes [4..8) the little-endian value, which
   is the current GHC mode for address 0x803820, 1 for 0x803854, 2 for
   0x80000C, 1 for 0x800010 and 0 for every other address. *)
Claim_C18 ==
    [][IsMMRRead(op') => fx' = MMRResponse(op'.data, GHC_MODE, ghcMode)]_vars

(* C18, amended: the same, with the current GHC mode served at address
   0x80381C (GHC_INFO); 0x803820 is answered with 0 like every other address.
   A shorter request produces no notification. *)
Thm_C18 ==
    [][/\ IsMMRRead(op') =>
              /\ fx' = MMRResponse(op'.data, GHC_INFO, ghcMode)
              /\ Len(fx'[1].data) = 8
       /\ (op'.name = "write" /\ op'.what = CHAR_READ_FROM_MMR /\ Len(op'.data) < 4) =>
              fx' = <<>>
       /\ (op'.name = "write" /\ op'.what = CHAR_READ_FROM_MMR) =>
              UNCHANGED <<machineVars, m_profileHeader, m_profileFrames>>]_vars

\* the GHC mode was read at GHC_INFO in a mode other than 0
Wit_C18 ==
    /\ IsMMRRead(op)
    /\ RequestAddress(op.data) = GHC_INFO
    /\ ghcMode = 4
    /\ fx = <<Effect("notify", CHAR_READ_FROM_MMR, <<0, 128, 56, 28, 4, 0, 0, 0>>)>>

AsksGhcInfo(o) == IsMMRRead(o) /\ SubSeq(o.data, 2, 4) = <<128, 56, 28>>

(* C19: a read-from-MMR request carrying address bytes 80 38 1C makes the
   Controller notify READ_FROM_MMR with exactly the eight bytes
   80 38 1C 00 00 00 00 00. *)
Claim_C19 ==
    [][AsksGhcInfo(op') =>
          fx' = <<Effect("notify", CHAR_READ_FROM_MMR, <<128, 56, 28, 0, 0, 0, 0, 0>>)>>]_vars

(* C19, amended: the notification is the eight bytes 00 80 38 1C g 00 00 00,
   the address as a big-endian 32-bit word and then the current GHC mode g,
   which is 3 when the Controller starts. *)
Thm_C19 ==
    /\ ghcMode = 3
    /\ [][AsksGhcInfo(op') =>
             fx' = <<Effect("notify", CHAR_READ_FROM_MMR,
                            <<0, 128, 56, 28, ghcMode, 0, 0, 0>>)>>]_vars

\* the request was answered in the mode the Controller starts in
Wit_C19 ==
    /\ AsksGhcInfo(op)
    /\ ghcMode = 3
    /\ fx = <<Effect("notify", CHAR_READ_FROM_MMR, <<0, 128, 56, 28, 3, 0, 0, 0>>)>>

----------------------------------------------------------------------------
(* The operation buttons as toggles *)

IdleStopped ==
    /\ m_currentState = Idle
    /\ m_currentSubState = Ready
    /\ ~shotTimerActive
    /\ ~phaseTimerActive

(* C20: each operation button toggles with respect to its target state:
   pressed while the target is current it stops the operation and yields
   (Idle, Ready); pressed while Idle it starts the target; so the same button
   pressed twice in a row from (Idle, Ready) ends in (Idle, Ready) with the
   shot-sample and phase timers stopped. *)
Thm_C20 ==
    [][op'.name \in StartOps =>
        LET target == op'.data[1]
        IN  /\ m_currentState = target => IdleStopped'
            /\ m_currentState = Idle =>
                   /\ m_currentState' = target
                   /\ m_currentSubState' = StartTable[target][1]
            /\ (op.name = op'.name /\ op.from = <<Idle, Ready>>) => IdleStopped']_vars

\* Flush was pressed a second time while the rinse it had started was running
Wit_C20 ==
    /\ op.name = "onFlushClicked"
    /\ op.from = <<HotWaterRinse, Pouring>>
    /\ IdleStopped
    /\ \E i \in 1..Len(fx) : fx[i] = Effect("stop", "phase", <<>>)

----------------------------------------------------------------------------
(* The operator panel with its timers and the connection: every slot of
   DE1Simulator but the GHC combo box, which stays at its default. *)

NextPanel ==
    \/ SocketConnected
    \/ SocketDisconnected
    \/ PiReady
    \/ WriteRequestedState
    \/ ClickPower
    \/ ClickEspresso
    \/ ClickSteam
    \/ ClickHotWater
    \/ ClickFlush
    \/ ClickStop
    \/ PhaseTimerFires
    \/ ShotTimerFires
    \/ WaterTimerFires

SpecPanel == Init /\ [][NextPanel]_vars

\* what Power leaves when the machine was not asleep: the operation stopped
\* as by stopOperation, then the transition to (Sleep, Ready)
PowerOffEffects ==
    StopEffects \o <<Effect("assign", "pair", <<Sleep, Ready>>),
                     Effect("notify", CHAR_STATE_INFO, <<Sleep, Ready>>)>>

(* C21: Power toggles Sleep and Idle: from Sleep it yields (Idle, Ready),
   from Idle it yields (Sleep, Ready), and pressed during an operation it
   ends in (Sleep, Ready) with the shot-sample and phase timers cancelled. *)
Thm_C21 ==
    [][op'.name = "onPowerClicked" =>
        /\ m_currentSubState' = Ready
        /\ IF m_currentState = Sleep
           THEN /\ m_currentState' = Idle
                /\ StateInfos' = << <<Idle, Ready>> >>
           ELSE /\ m_currentState' = Sleep
                /\ ~shotTimerActive'
                /\ ~phaseTimerActive'
                /\ fx' = PowerOffEffects]_vars

\* Power was pressed while steam was being made and its timers were running
Wit_C21 ==
    /\ op.name = "onPowerClicked"
    /\ op.from = <<Steam, Steaming>>
    /\ m_currentState = Sleep
    /\ m_currentSubState = Ready
    /\ ~shotTimerActive
    /\ ~phaseTimerActive
    /\ fx = PowerOffEffects

----------------------------------------------------------------------------
(* The state changes of the engine: the panel, the GHC combo box, the inbound
   REQUESTED_STATE writes and the phase timer, without the periodic
   SHOT_SAMPLE and WATER_LEVELS notifications. *)

NextGhc ==
    \/ SocketConnected
    \/ SocketDisconnected
    \/ WriteRequestedState
    \/ ClickPower
    \/ ClickEspresso
    \/ ClickSteam
    \/ ClickHotWater
    \/ ClickFlush
    \/ ClickStop
    \/ SetGhcMode
    \/ PhaseTimerFires

SpecGhc == Init /\ [][NextGhc]_vars

\* the last step was a panel button asking for an operation other than the
\* current one
IsStartCommand(o) == o.name \in StartOps /\ o.data[1] # o.from[1]

pairAndTimers == <<m_currentState, m_currentSubState, shotTimerActive, phaseTimerActive>>

(* C22: operator-initiated state changes are filtered by GHC mode: while GHC
   mode is 3 an operator command whose target state is other than Sleep or
   Idle is dropped, leaving the (state, substate) pair and the timers
   unchanged. *)
Claim_C22 ==
    [][(ghcMode = 3 /\ IsStartCommand(op')) => UNCHANGED pairAndTimers]_vars

(* C22, as the code has it: the GHC gate filters the state changes requested
   over BLE, not the operator's: in GHC mode 3 a REQUESTED_STATE write for a
   state other than Sleep or Idle is dropped, leaving the pair and the timers
   unchanged and emitting nothing, while an operator start command is
   honoured in mode 3 as in every other mode: from Idle or Sleep it makes the
   target current and sets both timers running. *)
Thm_C22 ==
    [][/\ (ghcMode = 3 /\ \E b \in 0..255 : IsReqWrite(op', b) /\ b \notin {Sleep, Idle})
          => UNCHANGED pairAndTimers /\ fx' = <<>>
       /\ (IsStartCommand(op') /\ m_currentState \in {Idle, Sleep})
          => /\ m_currentState' = op'.data[1]
             /\ m_currentSubState' = StartTable[op'.data[1]][1]
             /\ shotTimerActive'
             /\ phaseTimerActive'
             /\ StateInfos' = << <<m_currentState', m_currentSubState'>> >>]_vars

\* in GHC mode 3 the Espresso button was pressed in (Idle, Ready) and the
\* shot began
Wit_C22 ==
    /\ ghcMode = 3
    /\ op.name = "onEspressoClicked"
    /\ op.from = <<Idle, Ready>>
    /\ m_currentState = Espresso
    /\ m_currentSubState = Heating
    /\ shotTimerActive
    /\ phaseTimerActive

----------------------------------------------------------------------------
(* The defined states *)

\* the last enumerators of DE1::State and DE1::SubState
SchedIdle == 21
Puffing == 20

(* C23: in every reachable state the current primary state is one of the 22
   defined machine states (Sleep 0 to SchedIdle 21) and the current substate
   one of the defined substates (Ready 0 to Puffing 20), whatever byte an
   inbound REQUESTED_STATE write carries. *)
Claim_C23 ==
    /\ m_currentState \in Sleep..SchedIdle
    /\ m_currentSubState \in Ready..Puffing

----------------------------------------------------------------------------
(* Disconnect and the timers *)

\* the last handler produced a payload of the characteristic
Produced(charId) == \E i \in 1..Len(fx) : fx[i].t = "notify" /\ fx[i].what = charId

\* the Controller has just come back after a disconnect that cut an
\* operation short, and nothing has been asked of it since
JustReconnected ==
    /\ op.name = "onConnected"
    /\ op.from[1] \in ActiveStates
    /\ op.from[2] # Ready

(* C24: a Controller disconnect cancels the shot-sample, phase and
   water-level timers: after it no SHOT_SAMPLE or WATER_LEVELS payload is
   produced and no phase-driven transition occurs until the Controller has
   reconnected and a new command has been given. *)
Claim_C24 ==
    [][(~socketConnected \/ JustReconnected) =>
        /\ ~Produced(CHAR_SHOT_SAMPLE)'
        /\ ~Produced(CHAR_WATER_LEVELS)'
        /\ op'.name # "onPhaseTimeout"]_vars

(* C24, as the code has it: the disconnect cancels the three timers, and
   while the Controller is disconnected no SHOT_SAMPLE or WATER_LEVELS
   payload is produced and no phase-driven transition occurs.  The reconnect
   starts the water-level timer again, so WATER_LEVELS payloads resume
   without any command, from that timer and in answer to the ready event;
   the shot-sample and phase timers stay cancelled until a start command of
   the operator is honoured: until then no SHOT_SAMPLE is produced and no
   phase-driven transition occurs. *)
Thm_C24 ==
    [][/\ ~socketConnected' => ~shotTimerActive' /\ ~phaseTimerActive' /\ ~waterTimerActive'
       /\ ~socketConnected =>
              /\ ~Produced(CHAR_SHOT_SAMPLE)'
              /\ ~Produced(CHAR_WATER_LEVELS)'
              /\ op'.name # "onPhaseTimeout"
       /\ (~waterTimerActive /\ waterTimerActive') => op'.name = "onConnected"
       /\ Produced(CHAR_WATER_LEVELS)' =>
              \/ op'.name = "sendWaterLevel" /\ waterTimerActive
              \/ op'.name = "ready"
       /\ ((~shotTimerActive /\ shotTimerActive') \/ (~phaseTimerActive /\ phaseTimerActive'))
              => socketConnected /\ IsStartCommand(op')
       /\ Produced(CHAR_SHOT_SAMPLE)' => op'.name = "onShotTimerTick" /\ shotTimerActive
       /\ op'.name = "onPhaseTimeout" => phaseTimerActive]_vars

\* after a disconnect during steam and the reconnect, the water-level timer
\* fired and WATER_LEVELS was sent, no command having been given and the
\* other two timers still cancelled
Wit_C24 ==
    /\ op.name = "sendWaterLevel"
    /\ op.from = <<Steam, Steaming>>
    /\ Produced(CHAR_WATER_LEVELS)
    /\ socketConnected
    /\ waterTimerActive
    /\ ~shotTimerActive
    /\ ~phaseTimerActive

----------------------------------------------------------------------------
(* Inbound writes that are too short or name no characteristic the engine
   handles *)

\* one payload under the minimum for each characteristic handled, and a write
\* to a characteristic id that is not handled
ShortWrites ==
    {<<CHAR_REQUESTED_STATE, <<>>>>,
     <<CHAR_READ_FROM_MMR, <<4, 128, 56>>>>,
     <<CHAR_WRITE_TO_MMR, <<4, 128, 56, 32, 0, 0, 0>>>>,
     <<CHAR_HEADER_WRITE, <<1, 3, 1, 16>>>>,
     <<CHAR_FRAME_WRITE, <<0>> \o SubSeq(FrameBody1, 1, 6)>>,
     <<CHAR_FRAME_WRITE, <<>>>>,
     <<CHAR_SHOT_SETTINGS, <<0, 160, 120, 80, 200, 0, 36, 93>>>>,
     <<"FFFF", <<4>>>>}

WriteShort == \E w \in ShortWrites : BleWrite(w[1], w[2])

\* payloads of full length for the two characteristics that are only logged
WriteLogged ==
    \/ BleWrite(CHAR_WRITE_TO_MMR, <<4, 128, 56, 32, 0, 0, 0, 0>>)
    \/ BleWrite(CHAR_SHOT_SETTINGS, <<0, 160, 120, 80, 200, 0, 36, 93, 0>>)

\* the first frame of a profile, at full length
WriteFirstFrame == BleWrite(CHAR_FRAME_WRITE, <<0>> \o FrameBody1)

NextWrites ==
    \/ SocketConnected
    \/ SocketDisconnected
    \/ WriteRequestedState
    \/ WriteHeader
    \/ WriteFirstFrame
    \/ WriteReadFromMMR
    \/ WriteShort
    \/ WriteLogged

SpecWrites == Init /\ [][NextWrites]_vars

MinLength ==
    (CHAR_REQUESTED_STATE :> 1) @@ (CHAR_READ_FROM_MMR :> 4) @@ (CHAR_WRITE_TO_MMR :> 8) @@
    (CHAR_HEADER_WRITE :> 5) @@ (CHAR_FRAME_WRITE :> 8) @@ (CHAR_SHOT_SETTINGS :> 9)

IsDropped(o) ==
    /\ o.name = "write"
    /\ o.what \in DOMAIN MinLength => Len(o.data) < MinLength[o.what]

engineVars == <<machineVars, waterTimerActive, m_profileHeader, m_profileFrames,
                socketConnected, buttonsEnabled, ghcMode, m_tcpBuffer>>

(* C26: an inbound write whose payload is under the minimum (REQUESTED_STATE
   1, READ_FROM_MMR 4, WRITE_TO_MMR 8, HEADER_WRITE 5, FRAME_WRITE 8,
   SHOT_SETTINGS 9 bytes) or whose characteristic id is unknown is dropped:
   the machine state, the timers, the profile header and frames are
   unchanged and nothing is sent; the writes that follow it are processed:
   a request for Sleep makes Sleep current, a header is stored, an MMR read
   is answered. *)
Thm_C26 ==
    [][/\ IsDropped(op') => UNCHANGED engineVars /\ fx' = <<>>
       /\ (IsDropped(op) /\ IsReqWrite(op', Sleep)) =>
              m_currentState' = Sleep /\ StateInfos' = << <<Sleep, Ready>> >>
       /\ (IsDropped(op) /\ IsHeaderWrite(op') /\ ~IsDropped(op')) =>
              m_profileHeader'.numFrames = op'.data[2]
       /\ (IsDropped(op) /\ IsMMRRead(op') /\ ~IsDropped(op')) =>
              Produced(CHAR_READ_FROM_MMR)']_vars

\* a header of four bytes was dropped after a profile of two frames had been
\* announced and its first frame written: the profile is as it was
Wit_C26 ==
    /\ op.name = "write"
    /\ op.what = CHAR_HEADER_WRITE
    /\ op.data = <<1, 3, 1, 16>>
    /\ m_profileHeader.numFrames = 2
    /\ Len(m_profileFrames) = 2
    /\ m_profileFrames[1].setVal = Q(4, 1)
    /\ fx = <<>>

----------------------------------------------------------------------------
(* Commands the Agent cannot carry out *)

\* the last step handled one command line
IsCommand(o) == o.name \in {c.cmd : c \in AgentCommands}

\* the cmd values the running source has a branch for
KnownCmds == IF daemonSource = DAEMON_CPP THEN {"notify", "update"}
             ELSE {"notify", "update", "start", "stop"}

\* a command with a cmd that is not known, or a notify / update for a short
\* id that is not in the service
IsRefused(o) ==
    /\ IsCommand(o)
    /\ \/ o.name \notin KnownCmds
       \/ o.name \in {"notify", "update"} /\ o.what \notin DOMAIN gattValues

(* C27: on the Agent a command with an unknown cmd value, or a notify /
   update naming a short id that is not in the service, changes no
   characteristic value and no advertising state, and the Agent goes on with
   the lines that follow: it keeps its client and its buffer, and the notify
   or update that comes next is written to its characteristic. *)
Thm_C27 ==
    [][/\ IsRefused(op') =>
              /\ UNCHANGED <<gattValues, bleState, m_tcpClient, daemonBuffer>>
              /\ fx' = <<>>
       /\ (IsRefused(op) /\ IsCommand(op') /\ ~IsRefused(op')
               /\ op'.name \in {"notify", "update"}) =>
              /\ gattValues' = [gattValues EXCEPT ![op'.what] = op'.data]
              /\ fx' = <<Effect("gatt", op'.what, op'.data)>>]_vars

\* while advertising, the Agent was sent a notify for the short id FFFF, which
\* the service does not have
Wit_C27 ==
    /\ op.name = "notify"
    /\ op.what = "FFFF"
    /\ bleState = AdvertisingState
    /\ m_tcpClient # NoClient
    /\ gattValues = createDE1Service(daemonSource)
    /\ fx = <<>>

----------------------------------------------------------------------------
(* Decoding of a primary frame *)

\* the write stores a primary frame: its wire index is below the header's
\* frame count and below the base of the extension indices
IsPrimaryWrite(o) ==
    /\ IsFrameWrite(o)
    /\ o.data[1] < m_profileHeader.numFrames
    /\ o.data[1] < ExtensionBase

(* C28: after a header with N >= 1 the frame write 00 01 40 BE 32 00 00 64
   stores frames[0] with pump mode Flow (flags bit 0 set), setVal 4.0, temp
   95.0, duration 5.0, triggerVal 0 and maxVol 100; in general bytes 1..7 of
   a primary frame decode as flags, setVal = byte/16, temp = byte/2, duration
   = the low 7 bits if the high bit is set and byte/10 otherwise, triggerVal
   = byte/16 and maxVol = the big-endian 16-bit value masked to its low 10
   bits. *)
Thm_C28 ==
    [][IsPrimaryWrite(op') =>
        LET v == op'.data
            f == m_profileFrames'[v[1] + 1]
        IN  /\ f.frameIndex = v[1]
            /\ f.flags = v[2]
            /\ f.setVal * 16 = v[3] * 400
            /\ f.temp * 2 = v[4] * 400
            /\ f.duration = IF v[5] >= 128 THEN (v[5] - 128) * 400 ELSE v[5] * 40
            /\ f.triggerVal * 16 = v[6] * 400
            /\ f.maxVol = (v[7] * 256 + v[8]) % 1024
            /\ v = <<0, 1, 64, 190, 50, 0, 0, 100>> =>
                   /\ f.flags % 2 = 1
                   /\ f.setVal = Q(4, 1)
                   /\ f.temp = Q(95, 1)
                   /\ f.duration = Q(5, 1)
                   /\ f.triggerVal = 0
                   /\ f.maxVol = 100]_vars

\* the frame of the example was written as frame 0 of a profile of two
Wit_C28 ==
    /\ op.name = "write"
    /\ op.what = CHAR_FRAME_WRITE
    /\ op.data = <<0, 1, 64, 190, 50, 0, 0, 100>>
    /\ m_profileHeader.numFrames = 2
    /\ m_profileFrames[1] =
           [ProfileFrame EXCEPT !.flags = 1, !.setVal = Q(4, 1), !.temp = Q(95, 1),
                                !.duration = Q(5, 1), !.maxVol = 100]

----------------------------------------------------------------------------
(* The codec as a function: encodeU8P4 applied to the values a double can
   take around the range of the format, on the grid of 1/400 *)

\* largest input, in whole units
MaxCodecInput == 17

CodecInputs == (0 - Q(1, 1))..Q(MaxCodecInput, 1)

\* the set pressure, one of the two values sendShotSample encodes as U8P4,
\* is the input
InitCodec ==
    /\ socketConnected = FALSE
    /\ buttonsEnabled = FALSE
    /\ readyDue = FALSE
    /\ ghcMode = 3
    /\ m_currentState = Idle
    /\ m_currentSubState = Ready
    /\ shotTimerActive = FALSE
    /\ phaseTimerActive = FALSE
    /\ waterTimerActive = FALSE
    /\ m_shotTimer_s = 0
    /\ m_pressure = 0
    /\ m_flow = 0
    /\ m_steamTemp = 0
    /\ m_frameNumber = 0
    /\ m_setPressure \in CodecInputs
    /\ m_setFlow = Q(2, 1)
    /\ m_profileHeader = ProfileHeader
    /\ m_profileFrames = <<>>
    /\ written = {}
    /\ op = [name |-> "init", what |-> "", data |-> <<>>, from |-> <<Idle, Ready>>]
    /\ fx = <<>>
    /\ m_tcpBuffer = <<>>
    /\ piStream = <<>>
    /\ piLines = <<>>
    /\ daemonSource = NotStarted
    /\ bootTimerPending = FALSE
    /\ bleState = UnconnectedState
    /\ gattValues = <<>>
    /\ m_tcpClient = NoClient
    /\ daemonBuffer = <<>>
    /\ winStream = <<>>
    /\ winLines = <<>>
    /\ toAgent = <<>>
    /\ stateLog = <<>>
    /\ stateInfoLog = <<>>
    /\ m_bleClientLabel = None
    /\ bleEvents = <<>>
\* d[15] = BinaryCodec::encodeU8P4(m_setPressure)
ApplyEncodeU8P4 ==
    /\ op.name = "init"
    /\ op' = Op("encodeU8P4", "", <<>>)
    /\ fx' = <<Effect("encode", "U8P4", <<encodeU8P4(m_setPressure)>>)>>
    /\ UNCHANGED <<socketConnected, buttonsEnabled, readyDue, ghcMode, machineVars,
                   waterTimerActive, m_profileHeader, m_profileFrames, written,
                   m_tcpBuffer, piStream, piLines, m_bleClientLabel>>
    /\ UNCHANGED agentVars
    /\ UNCHANGED linkVars

NextCodec == ApplyEncodeU8P4

SpecCodec == InitCodec /\ [][NextCodec]_vars

\* the byte encodeU8P4 gave for the input
Encoded == fx[1].data[1]

(* C29: encodeU8P4 clamps and never wraps: for every v in [0, 15.9375]
   decodeU8P4(encodeU8P4(v)) is within 1/16 of v, for v < 0 the encoded byte
   is 0 and for v > 15.9375 it is 255. *)
Thm_C29 ==
    op.name = "encodeU8P4" =>
        LET v == m_setPressure
        IN  /\ Encoded \in 0..255
            /\ v < 0 => Encoded = 0
            /\ v > Q(255, 16) => Encoded = 255
            /\ (0 <= v /\ v <= Q(255, 16)) =>
                   /\ decodeU8P4(Encoded) - v <= Q(1, 16)
                   /\ v - decodeU8P4(Encoded) <= Q(1, 16)

\* 16.0, the first value whose sixteenths no longer fit a byte, was encoded
Wit_C29 ==
    /\ op.name = "encodeU8P4"
    /\ m_setPressure = Q(16, 1)
    /\ Encoded = 255

----------------------------------------------------------------------------
(* The phase timer and the active operations *)

(* C30: in every reachable state the single-shot phase timer is armed exactly
   when the current state is an active operation (Espresso, Steam, HotWater,
   HotWaterRinse): no active operation is current with no phase timer
   pending, and the phase timer is never pending in Idle or Sleep. *)
Claim_C30 == phaseTimerActive <=> m_currentState \in ActiveStates

----------------------------------------------------------------------------
(* The Controller and the Agent on one control channel: what sendCommand
   writes is a line in flight until the Agent's onTcpData reads it.  TCP
   keeps the lines in order; the Agent sees the end of a session after the
   lines written before it. *)

\* entries of the history of pairs
MaxLog == 4
\* command lines written and not yet read
MaxInFlight == 3

\* the one Controller, as the Agent's client
TheController == 1

IsNotify(e) == e.t = "notify"
IsGattStateInfo(e) == e.t = "gatt" /\ e.what = CHAR_STATE_INFO

\* the command lines a handler wrote to the socket, in order
WrittenLines(c) ==
    [i \in 1..Len(SelectSeq(c.fx, IsNotify)) |->
        Command("notify", SelectSeq(c.fx, IsNotify)[i].what, SelectSeq(c.fx, IsNotify)[i].data)]

\* the pairs a handler made current, in order
WentThrough(c) ==
    [i \in 1..Len(SelectSeq(c.fx, IsAssign)) |->
        [pair |-> SelectSeq(c.fx, IsAssign)[i].data, by |-> "transition"]]

\* the pair the handler of the ready event reported, no transition made
Reported(c) ==
    [i \in 1..Len(SelectSeq(c.fx, IsStateInfo)) |->
        [pair |-> SelectSeq(c.fx, IsStateInfo)[i].data, by |-> "ready"]]

\* a slot of DE1Simulator whose commands go to the Agent
Linked(c, name, what, data, log) ==
    /\ Commit(c)
    /\ op' = Op(name, what, data)
    /\ toAgent' = toAgent \o WrittenLines(c)
    /\ Len(toAgent') <= MaxInFlight
    /\ stateLog' = stateLog \o log
    /\ Len(stateLog') <= MaxLog
    /\ bleEvents' = IF c.connected THEN bleEvents ELSE <<>>
    /\ UNCHANGED <<written, stateInfoLog>>
    /\ UNCHANGED agentVars

\* the Controller's socket is connected to the listening Agent
LinkConnected ==
    /\ daemonSource # NotStarted
    /\ ~socketConnected
    /\ m_tcpClient = NoClient
    /\ Linked(onConnected(Cur), "onConnected", "", <<>>, <<>>)
    /\ UNCHANGED readyDue

\* newConnection at the Agent: the ready event is on its way to the Controller
LinkAccepted ==
    /\ socketConnected
    /\ m_tcpClient = NoClient
    /\ ACommit(onTcpConnection(ACur, TheController))
    /\ op' = Op("onTcpConnection", "", <<TheController>>)
    /\ readyDue' = TRUE
    /\ UNCHANGED <<socketConnected, buttonsEnabled, ghcMode, machineVars, waterTimerActive,
                   m_profileHeader, m_profileFrames, written, m_tcpBuffer, piStream, piLines,
                   m_bleClientLabel>>
    /\ UNCHANGED linkVars

LinkReady ==
    /\ socketConnected
    /\ readyDue
    /\ Linked(handlePiEvent(Cur, "ready", "", "", <<>>), "ready", "", <<>>,
              Reported(handlePiEvent(Cur, "ready", "", "", <<>>)))
    /\ readyDue' = FALSE

\* the Controller closes the session; an event still on its way is lost
LinkDisconnected ==
    /\ socketConnected
    /\ m_tcpClient # NoClient
    /\ Linked(onDisconnected(Cur), "onDisconnected", "", <<>>, <<>>)
    /\ readyDue' = FALSE

\* disconnected at the Agent, after the lines written before the close
LinkClosed ==
    /\ ~socketConnected
    /\ m_tcpClient # NoClient
    /\ toAgent = <<>>
    /\ AgentStep(onTcpDisconnected(ACur), "onTcpDisconnected", "", <<m_tcpClient>>)

\* onTcpData reads the oldest line in flight and hands it to handleCommand
LinkCommand ==
    /\ m_tcpClient # NoClient
    /\ toAgent # <<>>
    /\ LET cmd == Head(toAgent)
           a == handleCommand(ACur, cmd)
           wrote == SelectSeq(a.fx, IsGattStateInfo)
       IN  /\ ACommit(a)
           /\ op' = Op(cmd.cmd, cmd.char, cmd.data)
           /\ stateInfoLog' = stateInfoLog \o [i \in 1..Len(wrote) |-> wrote[i].data]
    /\ toAgent' = Tail(toAgent)
    /\ UNCHANGED controllerVars
    /\ UNCHANGED <<stateLog, bleEvents>>

LinkSteam ==
    /\ buttonsEnabled
    /\ Linked(onSteamClicked(Cur), "onSteamClicked", "", <<Steam>>,
              WentThrough(onSteamClicked(Cur)))
    /\ UNCHANGED readyDue

LinkStop ==
    /\ buttonsEnabled
    /\ Linked(onStopClicked(Cur), "onStopClicked", "", <<>>, WentThrough(onStopClicked(Cur)))
    /\ UNCHANGED readyDue

LinkPower ==
    /\ buttonsEnabled
    /\ Linked(onPowerClicked(Cur), "onPowerClicked", "", <<>>, WentThrough(onPowerClicked(Cur)))
    /\ UNCHANGED readyDue

LinkPhaseTimer ==
    /\ phaseTimerActive
    /\ Linked(onPhaseTimeout([Cur EXCEPT !.phaseOn = FALSE]), "onPhaseTimeout", "", <<>>,
              WentThrough(onPhaseTimeout([Cur EXCEPT !.phaseOn = FALSE])))
    /\ UNCHANGED readyDue

LinkWaterTimer ==
    /\ waterTimerActive
    /\ Linked(sendWaterLevel(Cur), "sendWaterLevel", "", <<>>, <<>>)
    /\ UNCHANGED readyDue

NextLink ==
    \/ DaemonStarts
    \/ BootTimerFires
    \/ LinkConnected
    \/ LinkAccepted
    \/ LinkReady
    \/ LinkDisconnected
    \/ LinkClosed
    \/ LinkCommand
    \/ LinkSteam
    \/ LinkStop
    \/ LinkPower
    \/ LinkPhaseTimer
    \/ LinkWaterTimer

SpecLink == Init /\ [][NextLink]_vars

\* the STATE_INFO values of the lines still in flight, in order
IsStateInfoLine(cmd) == cmd.cmd = "notify" /\ cmd.char = CHAR_STATE_INFO
InFlight ==
    [i \in 1..Len(SelectSeq(toAgent, IsStateInfoLine)) |->
        SelectSeq(toAgent, IsStateInfoLine)[i].data]

IsTransition(e) == e.by = "transition"
PairsOf(log) == [i \in 1..Len(log) |-> log[i].pair]

\* nothing is on its way in either direction
Quiet == toAgent = <<>> /\ ~readyDue

(* C25: the Agent applies the notify commands in the order they arrive and
   the Controller sends STATE_INFO in the order of the transitions, so the
   sequence of STATE_INFO values written at the Agent equals the sequence of
   pairs the Controller went through (with or without its initial pair),
   once nothing is in flight. *)
Claim_C25 ==
    Quiet =>
        \/ stateInfoLog = PairsOf(SelectSeq(stateLog, IsTransition))
        \/ stateInfoLog = << <<Idle, Ready>> >> \o PairsOf(SelectSeq(stateLog, IsTransition))

(* C25, as the code has it: the Agent writes the STATE_INFO values in the
   order the Controller sent them, and the Controller sends one for each
   transition, in the order of the transitions, and one more, carrying the
   current pair, for each ready event of the Agent: the values written at
   the Agent, followed by those still in flight, are the pairs made current
   and the pairs reported on ready, in the order in which that happened. *)
Thm_C25 == stateInfoLog \o InFlight = PairsOf(stateLog)

\* ready, Steam started and stopped, all of it written at the Agent
Wit_C25 ==
    /\ Quiet
    /\ stateInfoLog = << <<Idle, Ready>>, <<Steam, Steaming>>, <<Idle, Ready>> >>
    /\ stateLog[1].by = "ready"
    /\ gattValues[CHAR_STATE_INFO] = <<Idle, Ready>>

----------------------------------------------------------------------------
(* Every operation ends *)

\* the handlers of the operator's commands
OperatorOps == StartOps \cup {"onPowerClicked", "onStopClicked", "setGhcMode"}

IdleReady == m_currentState = Idle /\ m_currentSubState = Ready

(* C31: with the timers firing and no further operator command, every state
   in which an active operation (Espresso, Steam, HotWater, HotWaterRinse) is
   current is eventually followed by (Idle, Ready), whatever REQUESTED_STATE
   writes and Controller disconnects and reconnects come in between. *)
Claim_C31 ==
    (m_currentState \in ActiveStates) ~> (IdleReady \/ op.name \in OperatorOps)

----------------------------------------------------------------------------
(* Stop with nothing to stop *)

(* C36: Stop pressed while no operation is active does not change the machine
   state: in (Sleep, Ready) the pair stays (Sleep, Ready) and in
   (Idle, Ready) it stays (Idle, Ready). *)
Claim_C36 ==
    [][(/\ op'.name = "onStopClicked"
        /\ m_currentState \in {Sleep, Idle}
        /\ m_currentSubState = Ready) =>
        /\ m_currentState' = m_currentState
        /\ m_currentSubState' = m_currentSubState]_vars

----------------------------------------------------------------------------
(* What a frame write leaves alone *)

PrimaryFields == {"frameIndex", "flags", "setVal", "temp", "duration", "triggerVal", "maxVol"}
ExtensionFields == {"hasExtension", "limiterValue", "limiterRange"}

\* the frame records but the one at index k are as they were, and that one
\* differs at most in the fields of the set fs
OnlyFrameChanges(k, fs) ==
    /\ Len(m_profileFrames') = Len(m_profileFrames)
    /\ \A n \in 1..Len(m_profileFrames) :
           \A fld \in PrimaryFields \cup ExtensionFields :
               (n # k + 1 \/ fld \notin fs) =>
                   m_profileFrames'[n][fld] = m_profileFrames[n][fld]

(* C37: a frame write changes at most one frame record: a primary write at
   index i (i below the header's frame count) changes only frameIndex, flags,
   setVal, temp, duration, triggerVal and maxVol of frame i; an extension
   write for frame j changes only hasExtension, limiterValue and limiterRange
   of frame j; a tail-marker write (i equal to the frame count) changes
   nothing; the header and all other frames are unchanged. *)
Claim_C37 ==
    [][IsFrameWrite(op') =>
        LET i == op'.data[1]
            N == m_profileHeader.numFrames
        IN  /\ m_profileHeader' = m_profileHeader
            /\ i < N => OnlyFrameChanges(i, PrimaryFields)
            /\ i = N => OnlyFrameChanges(i, {})
            /\ (i > N /\ i >= ExtensionBase) =>
                   OnlyFrameChanges(i - ExtensionBase, ExtensionFields)
            /\ (i > N /\ i < ExtensionBase) => OnlyFrameChanges(i, {})]_vars

----------------------------------------------------------------------------
(* The Controller slot over attach and detach cycles *)

(* C38: the Agent's one Controller slot is always released: when the attached
   Controller disconnects the slot becomes empty, it stays empty until the
   next TCP connection, that connection is accepted as the attached
   Controller and the first event written to it is ready; connections refused
   while a Controller is attached leave the slot as it is; so for any number
   of attach and detach cycles. *)
Thm_C38 ==
    [][/\ op'.name = "onTcpDisconnected" => m_tcpClient' = NoClient
       /\ (m_tcpClient = NoClient /\ op'.name # "onTcpConnection") =>
              m_tcpClient' = NoClient
       /\ (m_tcpClient = NoClient /\ op'.name = "onTcpConnection") =>
              /\ m_tcpClient' = op'.data[1]
              /\ m_tcpClient' # NoClient
              /\ Events' # <<>>
              /\ Events'[1] = "ready"
              /\ \A i \in 2..Len(Events') : Events'[i] # "ready"
       /\ (m_tcpClient # NoClient /\ op'.name = "onTcpConnection") =>
              /\ m_tcpClient' = m_tcpClient
              /\ Events' = <<>>]_vars

\* a Controller has just been attached after an earlier session, in which the
\* water level was updated, had ended
Wit_C38 ==
    /\ op.name = "onTcpConnection"
    /\ m_tcpClient = op.data[1]
    /\ Events[1] = "ready"
    /\ gattValues[CHAR_WATER_LEVELS] = <<50, 0>>

----------------------------------------------------------------------------
(* The receive buffers across sessions *)

\* the two receivers with their sessions beginning and ending
NextSessions ==
    \/ SocketConnected
    \/ SocketDisconnected
    \/ DaemonStarts
    \/ TcpConnects
    \/ TcpDisconnects
    \/ DataReceived
    \/ TcpDataArrives

SpecSessions == Init /\ [][NextSessions]_vars

(* C32: the messages handled in one TCP session depend only on the bytes
   received in that session: when a session begins, on the Controller
   (connected) and on the Agent (a connection accepted), the receive buffer
   holds nothing of an earlier session, so that an incomplete line left when
   a session ended is not prepended to the first line of the next. *)
Claim_C32 ==
    /\ op.name = "onConnected" => m_tcpBuffer = <<>>
    /\ (op.name = "onTcpConnection" /\ op.data = <<m_tcpClient>>) => daemonBuffer = <<>>

----------------------------------------------------------------------------
(* STATE_INFO at the Agent and the pair of the Controller *)

\* the Controller's socket is connected and the Agent holds it as its client
ControllerAttached == socketConnected /\ m_tcpClient # NoClient

(* C34: whenever a Controller is attached and the control channel is
   quiescent (the ready event handled, every command sent read by the
   Agent), the value the Agent holds for the STATE_INFO characteristic is the
   Controller's current (state, substate) pair. *)
Thm_C34 ==
    (ControllerAttached /\ Quiet) =>
        gattValues[CHAR_STATE_INFO] = <<m_currentState, m_currentSubState>>

\* in a second session, after its ready handshake, Steam was started and the
\* Agent has read the last command in flight
Wit_C34 ==
    /\ ControllerAttached
    /\ Quiet
    /\ op.name = "notify"
    /\ m_currentState = Steam
    /\ m_currentSubState = Steaming
    /\ gattValues[CHAR_STATE_INFO] = <<Steam, Steaming>>
    /\ Len(SelectSeq(stateLog, LAMBDA e : e.by = "ready")) = 2

----------------------------------------------------------------------------
(* The BLE client as the Controller shows it *)

\* m_bleController->remoteAddress() of the one central of the model
TheCentral == "C0:FF:EE:00:00:01"

\* events in flight from the Agent to the Controller
MaxEvents == 2

IsBleEvent(e) == e.t = "event" /\ e.what \in {"connected", "disconnected"}

\* the connected / disconnected events a handler of the Agent wrote, in order
BleEventsOf(a) ==
    [i \in 1..Len(SelectSeq(a.fx, IsBleEvent)) |->
        [event |-> SelectSeq(a.fx, IsBleEvent)[i].what,
         client |-> IF SelectSeq(a.fx, IsBleEvent)[i].what = "connected"
                    THEN TheCentral ELSE ""]]

\* a slot of the BLE controller at the Agent; what it writes is lost unless
\* the Controller's end of the socket is open
BleSlot(a, name) ==
    /\ ACommit(a)
    /\ op' = Op(name, "", <<>>)
    /\ bleEvents' = IF socketConnected THEN bleEvents \o BleEventsOf(a) ELSE bleEvents
    /\ Len(bleEvents') <= MaxEvents
    /\ UNCHANGED controllerVars
    /\ UNCHANGED <<toAgent, stateLog, stateInfoLog>>

LinkCentralConnects ==
    /\ bleState = AdvertisingState
    /\ BleSlot(onBleConnected([ACur EXCEPT !.ble = ConnectedState]), "bleConnected")

LinkCentralDisconnects ==
    /\ bleState = ConnectedState
    /\ BleSlot(onBleDisconnected([ACur EXCEPT !.ble = UnconnectedState]), "bleDisconnected")

\* the Controller reads the oldest event in flight, after the ready event
LinkBleEvent ==
    /\ socketConnected
    /\ ~readyDue
    /\ bleEvents # <<>>
    /\ Commit(handlePiEvent(Cur, Head(bleEvents).event, Head(bleEvents).client, "", <<>>))
    /\ op' = Op(Head(bleEvents).event, "", <<>>)
    /\ bleEvents' = Tail(bleEvents)
    /\ UNCHANGED <<readyDue, written>>
    /\ UNCHANGED agentVars
    /\ UNCHANGED <<toAgent, stateLog, stateInfoLog>>

\* the session, the handshake and the BLE central
NextClient ==
    \/ DaemonStarts
    \/ BootTimerFires
    \/ LinkConnected
    \/ LinkAccepted
    \/ LinkReady
    \/ LinkDisconnected
    \/ LinkClosed
    \/ LinkCommand
    \/ LinkCentralConnects
    \/ LinkCentralDisconnects
    \/ LinkBleEvent

SpecClient == Init /\ [][NextClient]_vars

(* C33: whenever a Controller is attached and every event in flight has been
   delivered, the Controller's record of the BLE client is an address exactly
   when a BLE central is connected to the Agent, and None exactly when none
   is, also when the central connected or disconnected while no Controller
   was attached. *)
Claim_C33 ==
    (ControllerAttached /\ ~readyDue /\ bleEvents = <<>>) =>
        (m_bleClientLabel # None <=> bleState = ConnectedState)

----------------------------------------------------------------------------
(* The shot timer and its 16-bit field *)

\* ticks of 0.2 s after which shotTimerSec x 100 has passed 65535
MaxShotTicks == 3278

WriteIdle == BleWrite(CHAR_REQUESTED_STATE, <<Idle>>)

IsShotSample(e) == e.t = "notify" /\ e.what = CHAR_SHOT_SAMPLE

\* static_cast<uint16_t> of a double with integer part v: v itself in range;
\* out of range the conversion is undefined, and wraps, saturates or gives 0
CastOutcomes(v) == IF v <= 65535 THEN {v} ELSE {v % 65536, 65535, 0}

\* the handler's SHOT_SAMPLE with timerEncoded being what the cast gave
WithCast(c, timerEncoded) ==
    [c EXCEPT !.fx = [i \in 1..Len(c.fx) |->
        IF IsShotSample(c.fx[i])
        THEN [c.fx[i] EXCEPT !.data = encodeShortBE(timerEncoded) \o SubSeq(c.fx[i].data, 3, 19)]
        ELSE c.fx[i]]]

\* the shot timer over a long run: the phase timer, started together with it
\* by startOperation(HotWater), times out before the tick that would pass its
\* timeout
LongShotTimerFires ==
    /\ shotTimerActive
    /\ m_shotTimer_s < MaxShotTicks * Q(1, 5)
    /\ phaseTimerActive => m_shotTimer_s < Q(StartTable[HotWater][2], 1000)
    /\ \E sin \in PouringSamples :
         \E timerEncoded \in CastOutcomes(TruncDiv((m_shotTimer_s + Q(1, 5)) * 100, 400)) :
           Machine(WithCast(onShotTimerTick(Cur, sin[1], sin[2]), timerEncoded),
                   "onShotTimerTick", "", <<>>)

NextTicks ==
    \/ SocketConnected
    \/ ClickHotWater
    \/ WriteIdle
    \/ PhaseTimerFires
    \/ LongShotTimerFires

SpecTicks == Init /\ [][NextTicks]_vars

\* shotTimerSec x 100, as sendShotSample computes it before the cast
TimerField == TruncDiv(m_shotTimer_s * 100, 400)

(* C35: in every reachable state the shot timer is within the range of its
   SHOT_SAMPLE field: shotTimerSec x 100 is at most 65535, and bytes 0 and 1
   of every SHOT_SAMPLE are that number, big-endian, not reduced modulo
   65536. *)
Claim_C35 ==
    /\ TimerField <= 65535
    /\ \A i \in 1..Len(fx) :
           IsShotSample(fx[i]) =>
               SubSeq(fx[i].data, 1, 2) = <<TimerField \div 256, TimerField % 256>>

====
